---------------------------- MODULE Spec2Model ----------------------------
(***************************************************************************)
(* A model of cirru-edn: the Edn value type with its equality, ordering    *)
(* and hashing (src/src/edn.rs), the parser and the printer over Cirru     *)
(* trees (src/src/lib.rs) and the serde bridge (src/src/serde_support.rs). *)
(*                                                                         *)
(* Text is modelled as sequences of one-character strings.  The Cirru      *)
(* tokenizer and writer (crate cirru_parser) are outside the repository:   *)
(* the model works on Cirru trees, a leaf being [leaf |-> chars] and a     *)
(* list [list |-> <<trees>>].                                              *)
(***************************************************************************)
EXTENDS Integers, Sequences, FiniteSets, TLC

VARIABLES pc, data, data2, data3, nodes, native, ret

vars == <<pc, data, data2, data3, nodes, native, ret>>

(***************************************************************************)
(* Bounds of the model.                                                    *)
(***************************************************************************)
\* longest child sequence of a generated collection value
MaxLen == 2
\* longest child sequence of a generated Cirru list after its operator
MaxKids == 2

None == [k |-> "none"]

(***************************************************************************)
(* Characters and strings.  str ordering is byte-wise lexicographic.       *)
(***************************************************************************)
Ascii ==
  ("\"" :> 34) @@ ("#" :> 35) @@ ("%" :> 37) @@ ("'" :> 39) @@ ("-" :> 45) @@
  ("." :> 46) @@ ("0" :> 48) @@ ("1" :> 49) @@ ("2" :> 50) @@ ("3" :> 51) @@
  ("4" :> 52) @@ ("5" :> 53) @@ ("6" :> 54) @@ ("7" :> 55) @@ ("8" :> 56) @@
  ("9" :> 57) @@ (":" :> 58) @@ (";" :> 59) @@ ("A" :> 65) @@ ("B" :> 66) @@
  ("N" :> 78) @@ ("[" :> 91) @@ ("]" :> 93) @@ ("_" :> 95) @@ ("a" :> 97) @@
  ("b" :> 98) @@ ("c" :> 99) @@ ("d" :> 100) @@ ("e" :> 101) @@ ("f" :> 102) @@
  ("g" :> 103) @@ ("i" :> 105) @@ ("l" :> 108) @@ ("m" :> 109) @@ ("n" :> 110) @@
  ("o" :> 111) @@ ("q" :> 113) @@ ("r" :> 114) @@ ("s" :> 115) @@ ("t" :> 116) @@
  ("u" :> 117) @@ ("v" :> 118) @@ ("x" :> 120) @@ ("{" :> 123) @@ ("|" :> 124) @@
  ("}" :> 125)

IntCmp(a, b) == IF a < b THEN "Less" ELSE IF a > b THEN "Greater" ELSE "Equal"

RECURSIVE StrCmpFrom(_, _, _)
StrCmpFrom(s, t, i) ==
  IF i > Len(s) \/ i > Len(t) THEN IntCmp(Len(s), Len(t))
  ELSE IF Ascii[s[i]] # Ascii[t[i]] THEN IntCmp(Ascii[s[i]], Ascii[t[i]])
  ELSE StrCmpFrom(s, t, i + 1)

\* <str as Ord>::cmp
StrCmp(s, t) == StrCmpFrom(s, t, 1)

\* StripColon that strips nothing
StripColonKeep(s) == s

\* str::strip_prefix(':').unwrap_or(s)
StripColon(s) == IF Len(s) > 0 /\ s[1] = ":" THEN Tail(s) ELSE s

(***************************************************************************)
(* f64.  A finite number is w + o * 2^-53 with o in {0, -1, -2}; o # 0 is  *)
(* used only with w = 1, where 1 - 2^-53 and 1 - 2^-52 are the two floats  *)
(* just below 1.0.  f64::EPSILON = 2^-52 is two units of o.                *)
(***************************************************************************)
Fin(w, o) == [c |-> "fin", w |-> w, o |-> o]
NaN == [c |-> "nan", w |-> 0, o |-> 0]

\* f64::EPSILON, in units of 2^-53
EpsilonUnits == 2

Abs(i) == IF i < 0 THEN -i ELSE i

\* (a - b).abs() < f64::EPSILON
NumEq(a, b) ==
  /\ a.c = "fin"
  /\ b.c = "fin"
  /\ a.w = b.w
  /\ Abs(a.o - b.o) < EpsilonUnits

NumLt(a, b) ==
  /\ a.c = "fin"
  /\ b.c = "fin"
  /\ (a.w < b.w \/ (a.w = b.w /\ a.o < b.o))

\* the Number arm of Ord::cmp
NumCmp(a, b) == IF NumLt(a, b) THEN "Less" ELSE IF NumLt(b, a) THEN "Greater" ELSE "Equal"

\* `*n as usize`: truncation toward zero, saturating (NaN and negatives give 0)
NumAsUsize(n) ==
  IF n.c = "nan" THEN 0
  ELSE IF n.w <= 0 THEN 0
  ELSE IF n.o < 0 THEN n.w - 1
  ELSE n.w

\* f64's Display: the shortest text that parses back to the same float
NumText(n) ==
  CASE n.c = "nan" -> <<"N", "a", "N">>
    [] n = Fin(0, 0) -> <<"0">>
    [] n = Fin(1, 0) -> <<"1">>
    [] n = Fin(2, 0) -> <<"2">>
    [] n = Fin(-1, 0) -> <<"-", "1">>
    [] n = Fin(1, -1) -> <<"0", ".", "9", "9", "9", "9", "9", "9", "9", "9", "9", "9", "9", "9", "9", "9", "9", "9">>
    [] n = Fin(1, -2) -> <<"0", ".", "9", "9", "9", "9", "9", "9", "9", "9", "9", "9", "9", "9", "9", "9", "9", "8">>

NumTable == {NaN, Fin(0, 0), Fin(1, 0), Fin(2, 0), Fin(-1, 0), Fin(1, -1), Fin(1, -2)}

\* str::parse::<f64>: [ok, n]
ParseF64(s) ==
  IF \E n \in NumTable : NumText(n) = s
  THEN [ok |-> TRUE, n |-> CHOOSE n \in NumTable : NumText(n) = s]
  ELSE IF s = <<"1", ".", "0">> THEN [ok |-> TRUE, n |-> Fin(1, 0)]
  ELSE [ok |-> FALSE, n |-> NaN]

(***************************************************************************)
(* Cirru trees.                                                            *)
(***************************************************************************)
Leaf(s) == [leaf |-> s]
CList(xs) == [list |-> xs]
IsLeaf(t) == "leaf" \in DOMAIN t

\* derived Ord of enum Cirru { Leaf, List }: variant order, then payload
RECURSIVE CirruCmp(_, _)
RECURSIVE CirruSeqCmp(_, _, _)
CirruCmp(a, b) ==
  IF IsLeaf(a) /\ IsLeaf(b) THEN StrCmp(a.leaf, b.leaf)
  ELSE IF IsLeaf(a) THEN "Less"
  ELSE IF IsLeaf(b) THEN "Greater"
  ELSE CirruSeqCmp(a.list, b.list, 1)
CirruSeqCmp(xs, ys, i) ==
  IF i > Len(xs) \/ i > Len(ys) THEN IntCmp(Len(xs), Len(ys))
  ELSE LET o == CirruCmp(xs[i], ys[i]) IN
       IF o # "Equal" THEN o ELSE CirruSeqCmp(xs, ys, i + 1)

(***************************************************************************)
(* enum Edn.  An Option is a sequence of length 0 or 1; a HashSet or a     *)
(* HashMap is the sequence of its elements in iteration order.             *)
(***************************************************************************)
Nil == [k |-> "Nil"]
Bool(b) == [k |-> "Bool", b |-> b]
Number(n) == [k |-> "Number", n |-> n]
Symbol(s) == [k |-> "Symbol", s |-> s]
Tag(s) == [k |-> "Tag", s |-> s]
Str(s) == [k |-> "Str", s |-> s]
Quote(c) == [k |-> "Quote", c |-> c]
Tuple(tag, enum_tag, extra) == [k |-> "Tuple", tag |-> tag, enum_tag |-> enum_tag, extra |-> extra]
List(xs) == [k |-> "List", xs |-> xs]
Set(xs) == [k |-> "Set", xs |-> xs]
Map(kvs) == [k |-> "Map", kvs |-> kvs]
Record(tag, pairs) == [k |-> "Record", rtag |-> tag, pairs |-> pairs]
Buffer(bytes) == [k |-> "Buffer", bytes |-> bytes]
\* h names the shared cell behind the Arc, at the place where this EdnAnyRef
\* (the Arc pointer itself) is stored: a clone has the same h at another place
AnyRef(h, at) == [k |-> "AnyRef", h |-> h, at |-> at]
Atom(x) == [k |-> "Atom", x |-> x]

\* Edn::is_literal
is_literal(v) == v.k \in {"Nil", "Bool", "Number", "Symbol", "Tag", "Str"}


(***************************************************************************)
(* impl Hash for Edn.  A hash is modelled by the sequence of items the     *)
(* value writes into the Hasher: two values hash identically iff they      *)
(* write the same sequence.                                                *)
(***************************************************************************)
HStr(s) == [str |-> s]
HChars(s) == [chars |-> s]
HUsize(n) == [usize |-> n]
HBool(b) == [bool |-> b]
HTree(c) == [tree |-> c]
HPtr(p) == [ptr |-> p]

\* impl Hash for EdnTag
TagHash(s) == <<HStr("EdnTag:"), HChars(s)>>

RECURSIVE EdnHash(_)
RECURSIVE HashEach(_)
RECURSIVE HashPairs(_)
RECURSIVE HashFields(_)
EdnHash(v) ==
  CASE v.k = "Nil" -> <<HStr("nil:")>>
    [] v.k = "Bool" -> <<HStr("bool:"), HBool(v.b)>>
    [] v.k = "Number" -> <<HStr("number:"), HUsize(NumAsUsize(v.n))>>
    [] v.k = "Symbol" -> <<HStr("symbol:"), HChars(v.s)>>
    [] v.k = "Tag" -> <<HStr("tag:")>> \o TagHash(v.s)
    [] v.k = "Str" -> <<HStr("string:"), HChars(v.s)>>
    [] v.k = "Quote" -> <<HStr("quote:"), HTree(v.c)>>
    [] v.k = "Tuple" -> <<HStr("tuple")>> \o EdnHash(v.tag) \o <<HUsize(Len(v.extra))>> \o HashEach(v.extra)
    [] v.k = "List" -> <<HStr("list:"), HUsize(Len(v.xs))>> \o HashEach(v.xs)
    [] v.k = "Set" -> <<HStr("set:")>> \o HashEach(v.xs)
    [] v.k = "Map" -> <<HStr("map:")>> \o HashPairs(v.kvs)
    [] v.k = "Record" ->
         <<HStr("record:")>> \o TagHash(v.rtag) \o <<HUsize(Len(v.pairs))>> \o HashFields(v.pairs)
    [] v.k = "Buffer" -> <<HStr("buffer:")>> \o [i \in 1..Len(v.bytes) |-> HUsize(v.bytes[i])]
    [] v.k = "AnyRef" -> <<HStr("any-ref:"), HPtr(v.at)>>
    [] v.k = "Atom" -> <<HStr("atom:")>> \o EdnHash(v.x)
HashEach(xs) == IF xs = <<>> THEN <<>> ELSE EdnHash(Head(xs)) \o HashEach(Tail(xs))
HashPairs(kvs) ==
  IF kvs = <<>> THEN <<>>
  ELSE EdnHash(Head(kvs)[1]) \o EdnHash(Head(kvs)[2]) \o HashPairs(Tail(kvs))
HashFields(ps) ==
  IF ps = <<>> THEN <<>>
  ELSE TagHash(Head(ps)[1]) \o EdnHash(Head(ps)[2]) \o HashFields(Tail(ps))

(***************************************************************************)
(* impl PartialEq for Edn.  A HashSet/HashMap lookup finds an element only *)
(* under the same hash and an equal key.                                   *)
(***************************************************************************)
(***************************************************************************)
(* EdnAnyRef.  Pointee(h) is the host data in the cell h, with its Rust    *)
(* type: the cells of any_ref_values (1, 2, "1", 1) and one holding the    *)
(* f64 NaN.  Nothing in the crate writes a cell.                           *)
(***************************************************************************)
Pointee(h) ==
  CASE h = 1 -> [ty |-> "i32", val |-> 1]
    [] h = 2 -> [ty |-> "i32", val |-> 2]
    [] h = 3 -> [ty |-> "str", val |-> "1"]
    [] h = 4 -> [ty |-> "i32", val |-> 1]
    [] h = 5 -> [ty |-> "f64", val |-> NaN]

\* T::eq of the host type: f64 is IEEE equality, NaN unequal to itself
HostEq(ty, x, y) == IF ty = "f64" THEN x.c # "nan" /\ y.c # "nan" /\ x = y ELSE x = y

\* DynEq::do_eq: downcast to the type of self, then T::eq
do_eq(a, b) == a.ty = b.ty /\ HostEq(a.ty, a.val, b.val)

\* AnyRef equality by the identity of the cell
AnyRefSameHandle(a, b) == a.h = b.h

\* impl PartialEq for EdnAnyRef.  ptr::addr_eq(&self, &other) compares the
\* addresses of the two parameters self and other, two different locals, so
\* its branch is never taken; the result is that of do_eq on the two cells.
AnyRefEq(a, b) == do_eq(Pointee(a.h), Pointee(b.h))

RECURSIVE EdnEq(_, _)
RECURSIVE SeqEq(_, _)
RECURSIVE PairsEq(_, _)
RECURSIVE KeyEq(_, _)
EdnEq(a, b) ==
  IF a.k # b.k THEN FALSE
  ELSE CASE a.k = "Nil" -> TRUE
    [] a.k = "Bool" -> a.b = b.b
    [] a.k = "Number" -> NumEq(a.n, b.n)
    [] a.k \in {"Symbol", "Tag", "Str"} -> a.s = b.s
    [] a.k = "Quote" -> a.c = b.c
    [] a.k = "Tuple" ->
         /\ EdnEq(a.tag, b.tag)
         /\ SeqEq(a.enum_tag, b.enum_tag)
         /\ SeqEq(a.extra, b.extra)
    [] a.k = "List" -> SeqEq(a.xs, b.xs)
    [] a.k = "Buffer" -> a.bytes = b.bytes
    [] a.k = "Set" ->
         /\ Len(a.xs) = Len(b.xs)
         /\ \A i \in 1..Len(a.xs) : \E j \in 1..Len(b.xs) : KeyEq(a.xs[i], b.xs[j])
    [] a.k = "Map" ->
         /\ Len(a.kvs) = Len(b.kvs)
         /\ \A i \in 1..Len(a.kvs) : \E j \in 1..Len(b.kvs) :
              KeyEq(a.kvs[i][1], b.kvs[j][1]) /\ EdnEq(a.kvs[i][2], b.kvs[j][2])
    [] a.k = "Record" -> a.rtag = b.rtag /\ PairsEq(a.pairs, b.pairs)
    [] a.k = "AnyRef" -> AnyRefEq(a, b)
    [] a.k = "Atom" -> EdnEq(a.x, b.x)
SeqEq(xs, ys) ==
  /\ Len(xs) = Len(ys)
  /\ \A i \in 1..Len(xs) : EdnEq(xs[i], ys[i])
PairsEq(ps, qs) ==
  /\ Len(ps) = Len(qs)
  /\ \A i \in 1..Len(ps) : ps[i][1] = qs[i][1] /\ EdnEq(ps[i][2], qs[i][2])
KeyEq(x, y) == EdnHash(x) = EdnHash(y) /\ EdnEq(x, y)

(***************************************************************************)
(* impl Ord for Edn.  "Panic" is the unreachable!() of the Set, Map and    *)
(* AnyRef arms; it propagates out of every enclosing comparison.           *)
(***************************************************************************)
Rank(v) ==
  CASE v.k = "Nil" -> 0
    [] v.k = "Bool" -> 1
    [] v.k = "Number" -> 2
    [] v.k = "Symbol" -> 3
    [] v.k = "Tag" -> 4
    [] v.k = "Str" -> 5
    [] v.k = "Quote" -> 6
    [] v.k = "Tuple" -> 7
    [] v.k = "List" -> 8
    [] v.k = "Buffer" -> 9
    [] v.k = "Set" -> 10
    [] v.k = "Map" -> 11
    [] v.k = "Record" -> 12
    [] v.k = "Atom" -> 13
    [] v.k = "AnyRef" -> 14

\* Ordering::then_with
Then(o, p) == IF o = "Equal" THEN p ELSE o

RECURSIVE BytesCmp(_, _, _)
BytesCmp(xs, ys, i) ==
  IF i > Len(xs) \/ i > Len(ys) THEN IntCmp(Len(xs), Len(ys))
  ELSE IF xs[i] # ys[i] THEN IntCmp(xs[i], ys[i])
  ELSE BytesCmp(xs, ys, i + 1)

\* CardCmp that answers Equal for equal cardinalities
CardCmpSilent(m, n) == IntCmp(m, n)

\* the cardinality comparison of the Set and Map arms
CardCmp(m, n) == IF m = n THEN "Panic" ELSE IntCmp(m, n)

RECURSIVE EdnCmp(_, _)
RECURSIVE TupleCmp(_, _)
RECURSIVE OptCmp(_, _)
RECURSIVE VecCmp(_, _, _)
RECURSIVE FieldsCmp(_, _, _)
EdnCmp(a, b) ==
  IF a.k # b.k THEN IntCmp(Rank(a), Rank(b))
  ELSE CASE a.k = "Nil" -> "Equal"
    [] a.k = "Bool" -> IntCmp(IF a.b THEN 1 ELSE 0, IF b.b THEN 1 ELSE 0)
    [] a.k = "Number" -> NumCmp(a.n, b.n)
    [] a.k \in {"Symbol", "Tag", "Str"} -> StrCmp(a.s, b.s)
    [] a.k = "Quote" -> CirruCmp(a.c, b.c)
    [] a.k = "Tuple" -> TupleCmp(a, b)
    [] a.k = "List" -> VecCmp(a.xs, b.xs, 1)
    [] a.k = "Buffer" -> BytesCmp(a.bytes, b.bytes, 1)
    [] a.k = "Set" -> CardCmp(Len(a.xs), Len(b.xs))
    [] a.k = "Map" -> CardCmp(Len(a.kvs), Len(b.kvs))
    [] a.k = "Record" -> Then(StrCmp(a.rtag, b.rtag), FieldsCmp(a.pairs, b.pairs, 1))
    [] a.k = "Atom" -> EdnCmp(a.x, b.x)
    [] a.k = "AnyRef" -> IF a.at = b.at THEN "Equal" ELSE "Panic"
\* impl Ord for EdnTupleView
TupleCmp(a, b) ==
  Then(OptCmp(a.enum_tag, b.enum_tag), Then(EdnCmp(a.tag, b.tag), VecCmp(a.extra, b.extra, 1)))
\* Option<Arc<Edn>>: None < Some
OptCmp(x, y) ==
  IF x = <<>> /\ y = <<>> THEN "Equal"
  ELSE IF x = <<>> THEN "Less"
  ELSE IF y = <<>> THEN "Greater"
  ELSE EdnCmp(x[1], y[1])
\* Vec<Edn>: lexicographic
VecCmp(xs, ys, i) ==
  IF i > Len(xs) \/ i > Len(ys) THEN IntCmp(Len(xs), Len(ys))
  ELSE Then(EdnCmp(xs[i], ys[i]), VecCmp(xs, ys, i + 1))
\* Vec<(EdnTag, Edn)>: lexicographic, each pair by tag then value
FieldsCmp(ps, qs, i) ==
  IF i > Len(ps) \/ i > Len(qs) THEN IntCmp(Len(ps), Len(qs))
  ELSE Then(StrCmp(ps[i][1], qs[i][1]), Then(EdnCmp(ps[i][2], qs[i][2]), FieldsCmp(ps, qs, i + 1)))

(***************************************************************************)
(* Leaf texts.                                                             *)
(***************************************************************************)
OpQuote == <<"q", "u", "o", "t", "e">>
OpDo == <<"d", "o">>
OpTuple == <<":", ":">>
OpEnumTuple == <<"%", ":", ":">>
OpList == <<"[", "]">>
OpSet == <<"#", "{", "}">>
OpMap == <<"{", "}">>
OpRecord == <<"%", "{", "}">>
OpBuf == <<"b", "u", "f">>
OpAtom == <<"a", "t", "o", "m">>
TxtNil == <<"n", "i", "l">>
TxtTrue == <<"t", "r", "u", "e">>
TxtFalse == <<"f", "a", "l", "s", "e">>
TxtComment == <<";">>

HexDigits == <<"0", "1", "2", "3", "4", "5", "6", "7", "8", "9", "a", "b", "c", "d", "e", "f">>

\* HexEncode with the two digits in the wrong order
HexEncodeLowFirst(b) == <<HexDigits[(b % 16) + 1], HexDigits[(b \div 16) + 1]>>

\* hex::encode of one byte: two lowercase digits
HexEncode(b) == <<HexDigits[(b \div 16) + 1], HexDigits[(b % 16) + 1]>>

\* the value of one hex digit, -1 when the character is none
HexVal(c) ==
  IF \E i \in 1..16 : HexDigits[i] = c THEN (CHOOSE i \in 1..16 : HexDigits[i] = c) - 1
  ELSE IF c = "A" THEN 10
  ELSE IF c = "B" THEN 11
  ELSE -1

\* hex::decode of a two-character text: [ok, bytes]
HexDecode(y) ==
  IF HexVal(y[1]) >= 0 /\ HexVal(y[2]) >= 0
  THEN [ok |-> TRUE, bytes |-> <<HexVal(y[1]) * 16 + HexVal(y[2])>>]
  ELSE [ok |-> FALSE, bytes |-> <<>>]

(***************************************************************************)
(* The printer: assemble_cirru_node and format.  slice::sort and sort_by   *)
(* are the standard library's insertion sort (slices of up to 20 items),   *)
(* run with the comparator the code passes; a comparator that panics       *)
(* aborts the whole call.                                                  *)
(***************************************************************************)
\* MapEntryCompare without the arms that look at literals: keys only
MapEntryCompareKeysOnly(a, b) == EdnCmp(a[1], b[1])

\* the closure of items.sort_by in the Map arm
MapEntryCompare(a, b) ==
  LET a1 == is_literal(a[1])
      b1 == is_literal(b[1])
      a2 == is_literal(a[2])
      b2 == is_literal(b[2])
  IN CASE a1 /\ b1 /\ a2 /\ ~b2 -> "Less"
       [] a1 /\ b1 /\ ~a2 /\ b2 -> "Greater"
       [] a1 /\ ~b1 -> "Less"
       [] ~a1 /\ b1 -> "Greater"
       [] OTHER -> EdnCmp(a[1], b[1])

\* the closure of ordered_entries.sort_by in the Record arm
RecordEntryCompare(a, b) ==
  LET a2 == is_literal(a[2])
      b2 == is_literal(b[2])
  IN CASE a2 /\ ~b2 -> "Less"
       [] ~a2 /\ b2 -> "Greater"
       [] OTHER -> StrCmp(a[1], b[1])

\* SetItemCompare that leaves the items as iterated
SetItemCompareNone(a, b) == "Equal"

\* items.sort() in the Set arm compares with Ord::cmp
SetItemCompare(a, b) == EdnCmp(a, b)

Compare(mode, a, b) ==
  CASE mode = "set" -> SetItemCompare(a, b)
    [] mode = "map" -> MapEntryCompare(a, b)
    [] mode = "record" -> RecordEntryCompare(a, b)

\* where x goes after one comparison with s[j]: before it (look further
\* down), or after it (at j); -1 on a panic
Shift(o, further, stay) ==
  CASE o = "Panic" -> -1
    [] o = "Less" -> further
    [] OTHER -> stay

\* how many items of the sorted prefix s[1..j] stay before x; -1 on a panic
RECURSIVE InsertPos(_, _, _, _)
InsertPos(mode, s, x, j) ==
  IF j = 0 THEN 0
  ELSE Shift(Compare(mode, x, s[j]), InsertPos(mode, s, x, j - 1), j)

\* s with s[i] moved to stand after the first p items
Inserted(s, i, p) ==
  SubSeq(s, 1, p) \o <<s[i]>> \o SubSeq(s, p + 1, i - 1) \o SubSeq(s, i + 1, Len(s))

\* insertion sort, as the slice sorts run on short slices: s[1..i-1] is sorted
RECURSIVE SortFrom(_, _, _)
RECURSIVE SortStep(_, _, _, _)
SortFrom(mode, s, i) ==
  IF i > Len(s) THEN [ok |-> TRUE, items |-> s]
  ELSE SortStep(mode, s, i, InsertPos(mode, s, s[i], i - 1))
SortStep(mode, s, i, p) ==
  IF p = -1 THEN [ok |-> FALSE, items |-> <<>>]
  ELSE SortFrom(mode, Inserted(s, i, p), i + 1)

\* slice::sort / slice::sort_by: [ok, items]
Sort(mode, s) == SortFrom(mode, s, 2)

Assembled(t) == [ok |-> TRUE, tree |-> t]
AssemblePanic == [ok |-> FALSE, tree |-> Leaf(<<>>)]

\* Cirru::List(ys) with ys = head followed by the trees of the items
Form(head, ys) == IF ys.ok THEN Assembled(CList(head \o ys.trees)) ELSE AssemblePanic

\* ys.push(..): one more tree before the rest
Cons(h, t) ==
  IF h.ok /\ t.ok THEN [ok |-> TRUE, trees |-> <<h.tree>> \o t.trees]
  ELSE [ok |-> FALSE, trees |-> <<>>]

RECURSIVE assemble_cirru_node(_)
RECURSIVE AssembleEach(_)
RECURSIVE AssembleEntries(_)
RECURSIVE AssembleFields(_)
\* the trees of a sequence of values: [ok, trees]
AssembleEach(xs) ==
  IF xs = <<>> THEN [ok |-> TRUE, trees |-> <<>>]
  ELSE Cons(assemble_cirru_node(Head(xs)), AssembleEach(Tail(xs)))
\* one (key value) list per Map entry
AssembleEntries(kvs) ==
  IF kvs = <<>> THEN [ok |-> TRUE, trees |-> <<>>]
  ELSE Cons(Form(<<>>, AssembleEach(<<Head(kvs)[1], Head(kvs)[2]>>)), AssembleEntries(Tail(kvs)))
\* one (:field value) list per Record entry
AssembleFields(ps) ==
  IF ps = <<>> THEN [ok |-> TRUE, trees |-> <<>>]
  ELSE Cons(Form(<<Leaf(<<":">> \o Head(ps)[1])>>, AssembleEach(<<Head(ps)[2]>>)),
            AssembleFields(Tail(ps)))
\* the trees of the sorted items, nothing when the sort panicked
EachSorted(sorted) ==
  IF sorted.ok THEN AssembleEach(sorted.items) ELSE [ok |-> FALSE, trees |-> <<>>]
EntriesSorted(sorted) ==
  IF sorted.ok THEN AssembleEntries(sorted.items) ELSE [ok |-> FALSE, trees |-> <<>>]
FieldsSorted(sorted) ==
  IF sorted.ok THEN AssembleFields(sorted.items) ELSE [ok |-> FALSE, trees |-> <<>>]
assemble_cirru_node(v) ==
  CASE v.k = "Nil" -> Assembled(Leaf(TxtNil))
    [] v.k = "Bool" -> Assembled(Leaf(IF v.b THEN TxtTrue ELSE TxtFalse))
    [] v.k = "Number" -> Assembled(Leaf(NumText(v.n)))
    [] v.k = "Symbol" -> Assembled(Leaf(<<"'">> \o v.s))
    [] v.k = "Tag" -> Assembled(Leaf(<<":">> \o v.s))
    [] v.k = "Str" -> Assembled(Leaf(<<"|">> \o v.s))
    [] v.k = "Quote" -> Assembled(CList(<<Leaf(OpQuote), v.c>>))
    [] v.k = "List" -> Form(<<Leaf(OpList)>>, AssembleEach(v.xs))
    [] v.k = "Set" -> Form(<<Leaf(OpSet)>>, EachSorted(Sort("set", v.xs)))
    [] v.k = "Map" -> Form(<<Leaf(OpMap)>>, EntriesSorted(Sort("map", v.kvs)))
    [] v.k = "Record" ->
         Form(<<Leaf(OpRecord), Leaf(<<":">> \o v.rtag)>>, FieldsSorted(Sort("record", v.pairs)))
    [] v.k = "Tuple" ->
         Form(<<Leaf(IF v.enum_tag # <<>> THEN OpEnumTuple ELSE OpTuple)>>,
              AssembleEach(v.enum_tag \o <<v.tag>> \o v.extra))
    [] v.k = "Buffer" ->
         Assembled(CList(<<Leaf(OpBuf)>> \o [i \in 1..Len(v.bytes) |-> Leaf(HexEncode(v.bytes[i]))]))
    [] v.k = "AnyRef" -> AssemblePanic
    [] v.k = "Atom" -> Form(<<Leaf(OpAtom)>>, AssembleEach(<<v.x>>))

\* format: the top-level expressions handed to cirru_parser::format.  The
\* text cirru_parser writes is represented by the expressions it denotes, and
\* use_inline only selects the writer's layout.
format(v, use_inline) ==
  LET r == assemble_cirru_node(v) IN
  IF ~r.ok THEN [ok |-> FALSE, text |-> <<>>]
  ELSE IF IsLeaf(r.tree) THEN [ok |-> TRUE, text |-> <<CList(<<Leaf(OpDo), r.tree>>)>>]
  ELSE [ok |-> TRUE, text |-> <<r.tree>>]


(***************************************************************************)
(* The parser: parse and extract_cirru_edn_with_path.  Paths hold the      *)
(* 0-based indexes of the code; At(xs, i) is xs[i].                        *)
(***************************************************************************)
At(xs, i) == xs[i + 1]

Parsed(v) == [ok |-> TRUE, val |-> v]

\* EdnError::structure: node is the Option<&Cirru> the preview is rendered from
StructureError(message, path, node) ==
  [ok |-> FALSE, kind |-> "StructureError", message |-> message, path |-> path, node |-> node]

\* EdnError::value
ValueError(message, path, node) ==
  [ok |-> FALSE, kind |-> "ValueError", message |-> message, path |-> path, node |-> node]

is_comment(node) ==
  /\ ~IsLeaf(node)
  /\ node.list # <<>>
  /\ node.list[1] = Leaf(TxtComment)

\* HashSet::insert: an element already present is kept
SetInsert(ys, v) ==
  IF \E j \in 1..Len(ys) : KeyEq(ys[j], v) THEN ys ELSE Append(ys, v)

\* HashMap::insert: a present key keeps its place and takes the new value
MapInsert(zs, kk, v) ==
  IF \E j \in 1..Len(zs) : KeyEq(zs[j][1], kk)
  THEN [j \in 1..Len(zs) |-> IF KeyEq(zs[j][1], kk) THEN <<zs[j][1], v>> ELSE zs[j]]
  ELSE Append(zs, <<kk, v>>)

RECURSIVE extract_cirru_edn_with_path(_, _)
RECURSIVE DoLoop(_, _, _, _, _)
RECURSIVE TupleLoop(_, _, _, _, _, _)
RECURSIVE EnumTupleLoop(_, _, _, _, _, _, _)
RECURSIVE ListLoop(_, _, _, _)
RECURSIVE SetLoop(_, _, _, _)
RECURSIVE MapLoop(_, _, _, _, _)
RECURSIVE RecordLoop(_, _, _, _, _, _)
RECURSIVE BufLoop(_, _, _, _, _)

\* the leaf arm
ExtractLeaf(node, path) ==
  LET s == node.leaf IN
  IF s = TxtNil THEN Parsed(Nil)
  ELSE IF s = TxtTrue THEN Parsed(Bool(TRUE))
  ELSE IF s = TxtFalse THEN Parsed(Bool(FALSE))
  ELSE IF s = <<>> THEN ValueError("empty string is invalid for edn", path, <<node>>)
  ELSE IF s[1] = "'" THEN Parsed(Symbol(Tail(s)))
  ELSE IF s[1] = ":" THEN Parsed(Tag(Tail(s)))
  ELSE IF s[1] \in {"\"", "|"} THEN Parsed(Str(Tail(s)))
  ELSE LET f == ParseF64(s) IN
       IF f.ok THEN Parsed(Number(f.n))
       ELSE ValueError("unknown token for edn value", path, <<node>>)

\* a "do" arm that keeps the last value instead of rejecting a second one
RECURSIVE DoLoopLast(_, _, _, _, _)
DoLoopLast(xs, node, path, i, r) ==
  IF i >= Len(xs)
  THEN IF r = <<>> THEN StructureError("missing edn do value", path, <<node>>) ELSE Parsed(r[1])
  ELSE IF is_comment(At(xs, i)) THEN DoLoopLast(xs, node, path, i + 1, r)
  ELSE IF ~extract_cirru_edn_with_path(At(xs, i), Append(path, i)).ok
  THEN extract_cirru_edn_with_path(At(xs, i), Append(path, i))
  ELSE DoLoopLast(xs, node, path, i + 1, <<extract_cirru_edn_with_path(At(xs, i), Append(path, i)).val>>)

\* the "do" arm: the loop from child i on, ret the value found so far
DoLoop(xs, node, path, i, r) ==
  IF i >= Len(xs)
  THEN IF r = <<>> THEN StructureError("missing edn do value", path, <<node>>) ELSE Parsed(r[1])
  ELSE IF is_comment(At(xs, i)) THEN DoLoop(xs, node, path, i + 1, r)
  ELSE IF r # <<>> THEN StructureError("multiple values in do", path, <<node>>)
  ELSE LET x == extract_cirru_edn_with_path(At(xs, i), Append(path, i)) IN
       IF ~x.ok THEN x ELSE DoLoop(xs, node, path, i + 1, <<x.val>>)

\* the "::" arm
TupleLoop(xs, node, path, i, tag, extra) ==
  IF i >= Len(xs)
  THEN IF tag # <<>> THEN Parsed(Tuple(tag[1], <<>>, extra))
       ELSE StructureError("missing edn :: fst value", path, <<node>>)
  ELSE IF is_comment(At(xs, i)) THEN TupleLoop(xs, node, path, i + 1, tag, extra)
  ELSE LET x == extract_cirru_edn_with_path(At(xs, i), Append(path, i)) IN
       IF ~x.ok THEN x
       ELSE IF tag # <<>> THEN TupleLoop(xs, node, path, i + 1, tag, Append(extra, x.val))
       ELSE TupleLoop(xs, node, path, i + 1, <<x.val>>, extra)

\* a "%::" arm that takes the first value as the tag and the second as the enum tag
RECURSIVE EnumTupleLoopTagFirst(_, _, _, _, _, _, _)
EnumTupleLoopTagFirst(xs, node, path, i, enum_tag, tag, extra) ==
  IF i >= Len(xs)
  THEN IF enum_tag # <<>> /\ tag # <<>> THEN Parsed(Tuple(tag[1], enum_tag, extra))
       ELSE StructureError("missing edn %:: enum_tag or tag value", path, <<node>>)
  ELSE IF is_comment(At(xs, i)) THEN EnumTupleLoopTagFirst(xs, node, path, i + 1, enum_tag, tag, extra)
  ELSE IF ~extract_cirru_edn_with_path(At(xs, i), Append(path, i)).ok
  THEN extract_cirru_edn_with_path(At(xs, i), Append(path, i))
  ELSE IF tag = <<>>
  THEN EnumTupleLoopTagFirst(xs, node, path, i + 1, enum_tag,
                             <<extract_cirru_edn_with_path(At(xs, i), Append(path, i)).val>>, extra)
  ELSE IF enum_tag = <<>>
  THEN EnumTupleLoopTagFirst(xs, node, path, i + 1,
                             <<extract_cirru_edn_with_path(At(xs, i), Append(path, i)).val>>, tag, extra)
  ELSE EnumTupleLoopTagFirst(xs, node, path, i + 1, enum_tag, tag,
                             Append(extra, extract_cirru_edn_with_path(At(xs, i), Append(path, i)).val))

\* the "%::" arm
EnumTupleLoop(xs, node, path, i, enum_tag, tag, extra) ==
  IF i >= Len(xs)
  THEN IF enum_tag # <<>> /\ tag # <<>> THEN Parsed(Tuple(tag[1], enum_tag, extra))
       ELSE StructureError("missing edn %:: enum_tag or tag value", path, <<node>>)
  ELSE IF is_comment(At(xs, i)) THEN EnumTupleLoop(xs, node, path, i + 1, enum_tag, tag, extra)
  ELSE LET x == extract_cirru_edn_with_path(At(xs, i), Append(path, i)) IN
       IF ~x.ok THEN x
       ELSE IF enum_tag = <<>> THEN EnumTupleLoop(xs, node, path, i + 1, <<x.val>>, tag, extra)
       ELSE IF tag = <<>> THEN EnumTupleLoop(xs, node, path, i + 1, enum_tag, <<x.val>>, extra)
       ELSE EnumTupleLoop(xs, node, path, i + 1, enum_tag, tag, Append(extra, x.val))

\* ListLoop that hands an item the path of the list itself
ListLoopSamePath(xs, path, i, ys) ==
  IF i >= Len(xs) THEN Parsed(List(ys))
  ELSE IF is_comment(At(xs, i)) THEN ListLoop(xs, path, i + 1, ys)
  ELSE LET x == extract_cirru_edn_with_path(At(xs, i), path) IN
       IF ~x.ok THEN x ELSE ListLoop(xs, path, i + 1, Append(ys, x.val))

\* the "[]" arm
ListLoop(xs, path, i, ys) ==
  IF i >= Len(xs) THEN Parsed(List(ys))
  ELSE IF is_comment(At(xs, i)) THEN ListLoop(xs, path, i + 1, ys)
  ELSE LET x == extract_cirru_edn_with_path(At(xs, i), Append(path, i)) IN
       IF ~x.ok THEN x ELSE ListLoop(xs, path, i + 1, Append(ys, x.val))

\* the "#{}" arm
SetLoop(xs, path, i, ys) ==
  IF i >= Len(xs) THEN Parsed(Set(ys))
  ELSE IF is_comment(At(xs, i)) THEN SetLoop(xs, path, i + 1, ys)
  ELSE LET x == extract_cirru_edn_with_path(At(xs, i), Append(path, i)) IN
       IF ~x.ok THEN x ELSE SetLoop(xs, path, i + 1, SetInsert(ys, x.val))

\* the "{}" arm
MapLoop(xs, node, path, i, zs) ==
  IF i >= Len(xs) THEN Parsed(Map(zs))
  ELSE LET x == At(xs, i)
           child_path == Append(path, i)
       IN
       IF is_comment(x) THEN MapLoop(xs, node, path, i + 1, zs)
       ELSE IF IsLeaf(x)
       THEN StructureError("expected a pair, invalid map entry", child_path, <<node>>)
       ELSE IF Len(x.list) # 2 THEN MapLoop(xs, node, path, i + 1, zs)
       ELSE LET k_path == Append(child_path, 0)
                v_path == Append(child_path, 1)
                kk == extract_cirru_edn_with_path(x.list[1], k_path)
                vv == extract_cirru_edn_with_path(x.list[2], v_path)
            IN IF ~kk.ok THEN StructureError("invalid map entry", k_path, <<node>>)
               ELSE IF ~vv.ok THEN StructureError("invalid map entry for key", v_path, <<node>>)
               ELSE MapLoop(xs, node, path, i + 1, MapInsert(zs, kk.val, vv.val))

\* the "%{}" arm: the loop over the children after the name
RecordLoop(xs, node, path, i, name, entries) ==
  IF i >= Len(xs)
  THEN IF entries = <<>> THEN StructureError("empty record is invalid", path, <<node>>)
       ELSE Parsed(Record(name, entries))
  ELSE LET x == At(xs, i)
           child_path == Append(path, i)
       IN
       IF is_comment(x) THEN RecordLoop(xs, node, path, i + 1, name, entries)
       ELSE IF IsLeaf(x)
       THEN StructureError("expected record, invalid record entry", child_path, <<node>>)
       ELSE IF Len(x.list) # 2
       THEN StructureError("expected pair of 2", child_path, <<node>>)
       ELSE LET v_path == Append(child_path, 1)
                vv == extract_cirru_edn_with_path(x.list[2], v_path)
            IN IF ~IsLeaf(x.list[1])
               THEN StructureError("invalid list as record key", Append(child_path, 0), <<node>>)
               ELSE IF ~vv.ok THEN StructureError("invalid record value", v_path, <<node>>)
               ELSE RecordLoop(xs, node, path, i + 1, name,
                               Append(entries, <<StripColon(x.list[1].leaf), vv.val>>))

\* the "%{}" arm
ExtractRecord(xs, node, path) ==
  IF Len(xs) >= 3
  THEN IF IsLeaf(xs[2])
       THEN RecordLoop(xs, node, path, 2, StripColon(xs[2].leaf), <<>>)
       ELSE StructureError("expected record name in string", Append(path, 1), <<node>>)
  ELSE StructureError("insufficient items for edn record", path, <<node>>)

\* the "buf" arm
BufLoop(xs, node, path, i, ys) ==
  IF i >= Len(xs) THEN Parsed(Buffer(ys))
  ELSE LET x == At(xs, i)
           child_path == Append(path, i)
       IN
       IF is_comment(x) THEN BufLoop(xs, node, path, i + 1, ys)
       ELSE IF ~IsLeaf(x) THEN ValueError("expected hex string in buffer", child_path, <<node>>)
       ELSE IF Len(x.leaf) # 2
       THEN ValueError("expected length 2 hex string in buffer", child_path, <<node>>)
       ELSE LET b == HexDecode(x.leaf) IN
            IF ~b.ok THEN ValueError("expected length 2 hex string in buffer", child_path, <<node>>)
            ELSE IF Len(b.bytes) # 1
            THEN ValueError("hex for buffer might be too large", child_path, <<node>>)
            ELSE BufLoop(xs, node, path, i + 1, Append(ys, b.bytes[1]))

extract_cirru_edn_with_path(node, path) ==
  IF IsLeaf(node) THEN ExtractLeaf(node, path)
  ELSE LET xs == node.list IN
  IF xs = <<>> THEN StructureError("empty expr is invalid for edn", path, <<node>>)
  ELSE IF ~IsLeaf(xs[1]) THEN StructureError("invalid nodes for edn", path, <<node>>)
  ELSE LET s == xs[1].leaf IN
  CASE s = OpQuote ->
         IF Len(xs) = 2 THEN Parsed(Quote(xs[2]))
         ELSE StructureError("missing edn quote value", path, <<node>>)
    [] s = OpDo -> DoLoop(xs, node, path, 1, <<>>)
    [] s = OpTuple -> TupleLoop(xs, node, path, 1, <<>>, <<>>)
    [] s = OpEnumTuple -> EnumTupleLoop(xs, node, path, 1, <<>>, <<>>, <<>>)
    [] s = OpList -> ListLoop(xs, path, 1, <<>>)
    [] s = OpSet -> SetLoop(xs, path, 1, <<>>)
    [] s = OpMap -> MapLoop(xs, node, path, 1, <<>>)
    [] s = OpRecord -> ExtractRecord(xs, node, path)
    [] s = OpBuf -> BufLoop(xs, node, path, 1, <<>>)
    [] s = OpAtom ->
         IF Len(xs) = 2
         THEN LET x == extract_cirru_edn_with_path(xs[2], Append(path, 1)) IN
              IF x.ok THEN Parsed(Atom(x.val)) ELSE x
         ELSE StructureError("missing edn atom value", path, <<node>>)
    [] OTHER -> StructureError("invalid operator for edn", path, <<node>>)

\* parse, from the top-level expressions cirru_parser::parse returns
parse(xs) ==
  IF Len(xs) = 1
  THEN IF IsLeaf(xs[1])
       THEN StructureError("expected expr for data, got leaf", <<>>, <<xs[1]>>)
       ELSE extract_cirru_edn_with_path(xs[1], <<>>)
  ELSE StructureError("Expected 1 expr for edn", <<>>, <<>>)


(***************************************************************************)
(* Bounded sets of values.                                                 *)
(***************************************************************************)
SeqsUpTo(S, n) == UNION {[1..m -> S] : m \in 0..n}

\* the element sequences a HashSet can hold: no two elements are one key
SetSeqs(S, n) ==
  {s \in SeqsUpTo(S, n) : \A i, j \in 1..Len(s) : i < j => ~KeyEq(s[i], s[j])}

\* the entry sequences a HashMap can hold
MapSeqs(K, V, n) ==
  {s \in SeqsUpTo(K \X V, n) : \A i, j \in 1..Len(s) : i < j => ~KeyEq(s[i][1], s[j][1])}

One == Number(Fin(1, 0))
Two == Number(Fin(2, 0))
BelowOne == Number(Fin(1, -1))
NotANumber == Number(NaN)
TagA == Tag(<<"a">>)
TagB == Tag(<<"b">>)
TagC == Tag(<<"c">>)
StrA == Str(<<"a">>)
SymA == Symbol(<<"a">>)

Literals == {Nil, Bool(TRUE), Bool(FALSE), One, Two, BelowOne, NotANumber, SymA, TagA, TagB, StrA,
             Str(<<>>), Tag(<<":">>)}

PrintElems == {One, Two, TagA, StrA, List(<<>>)}
PrintSetElems == {One, Two, TagA, NotANumber, Set(<<One>>), Set(<<Two>>)}
PrintKeys == {TagA, TagB, StrA, One, Two, NotANumber, List(<<>>)}
PrintVals == {One, TagA, List(<<One>>)}
PrintFields == {<<"a">>, <<"b">>} \X {One, List(<<One>>)}
ByteSeqs == SeqsUpTo({0, 10, 171, 255}, MaxLen)

\* the Map of the printer's ordering test: {:b ([] 1 2), :c 2, :a 1}
OrderDemo == Map(<<<<TagB, List(<<One, Two>>)>>, <<TagC, Two>>, <<TagA, One>>>>)
\* the Record of test_format_record, its fields not in printing order
RecordDemo ==
  Record(<<"A">>, <<<<<<"a">>, One>>, <<<<"c">>, List(<<One>>)>>, <<<<"b">>, Two>>>>)

PrintValues ==
  Literals
  \cup {List(s) : s \in SeqsUpTo(PrintElems, MaxLen)}
  \cup {Set(s) : s \in SetSeqs(PrintSetElems, MaxLen)}
  \cup {Map(s) : s \in MapSeqs(PrintKeys, PrintVals, MaxLen)}
  \cup {Record(t, s) : t \in {<<"A">>, <<":", "A">>}, s \in SeqsUpTo(PrintFields, MaxLen)}
  \cup {Tuple(t, e, s) : t \in {TagA, One}, e \in {<<>>, <<TagB>>}, s \in SeqsUpTo({One, TagA}, MaxLen)}
  \cup {Buffer(s) : s \in ByteSeqs}
  \cup {Atom(x) : x \in {Nil, One, List(<<One>>), Atom(TagA)}}
  \cup {Quote(c) : c \in {Leaf(<<"a">>), CList(<<>>), CList(<<Leaf(TxtComment), Leaf(<<"a">>)>>)}}
  \cup {OrderDemo, RecordDemo, List(<<Map(<<<<TagA, Set(<<One, Two>>)>>>>)>>)}

\* all sequences that take their i-th item from ss[i]
RECURSIVE SeqProduct(_)
SeqProduct(ss) ==
  IF ss = <<>> THEN {<<>>}
  ELSE {<<h>> \o t : h \in Head(ss), t \in SeqProduct(Tail(ss))}

Perms(n) == {p \in [1..n -> 1..n] : \A i, j \in 1..n : i # j => p[i] # p[j]}

Permuted(s) == {[i \in 1..Len(s) |-> s[p[i]]] : p \in Perms(Len(s))}

\* the values that hold the same elements as v, every HashSet and HashMap
\* inside in any iteration order
RECURSIVE Reorderings(_)
Reorderings(v) ==
  CASE v.k = "List" -> {List(s) : s \in SeqProduct([i \in 1..Len(v.xs) |-> Reorderings(v.xs[i])])}
    [] v.k = "Set" ->
         UNION {{Set(q) : q \in Permuted(s)} :
                s \in SeqProduct([i \in 1..Len(v.xs) |-> Reorderings(v.xs[i])])}
    [] v.k = "Map" ->
         UNION {{Map(q) : q \in Permuted(s)} :
                s \in SeqProduct([i \in 1..Len(v.kvs) |->
                                   Reorderings(v.kvs[i][1]) \X Reorderings(v.kvs[i][2])])}
    [] v.k = "Record" ->
         {Record(v.rtag, s) :
            s \in SeqProduct([i \in 1..Len(v.pairs) |-> {v.pairs[i][1]} \X Reorderings(v.pairs[i][2])])}
    [] v.k = "Tuple" ->
         {Tuple(t, e, s) : t \in Reorderings(v.tag),
                           e \in SeqProduct([i \in 1..Len(v.enum_tag) |-> Reorderings(v.enum_tag[i])]),
                           s \in SeqProduct([i \in 1..Len(v.extra) |-> Reorderings(v.extra[i])])}
    [] v.k = "Atom" -> {Atom(x) : x \in Reorderings(v.x)}
    [] OTHER -> {v}

(***************************************************************************)
(* The printer and the parser as a state machine: a value is formatted,    *)
(* the text is parsed back, and the same value in another iteration order  *)
(* of its HashSets and HashMaps is formatted beside it.                    *)
(***************************************************************************)
InitPrint ==
  /\ pc = "value"
  /\ data \in PrintValues
  /\ data2 = None
  /\ data3 = None
  /\ nodes = <<>>
  /\ native = None
  /\ ret = None

\* format(&data, use_inline)
Format ==
  /\ pc = "value"
  /\ \E use_inline \in BOOLEAN :
       ret' = [op |-> "format", use_inline |-> use_inline, out |-> format(data, use_inline)]
  /\ pc' = "formatted"
  /\ UNCHANGED <<data, data2, data3, nodes, native>>

\* parse(&text) of the text format returned
ParseBack ==
  /\ pc = "formatted"
  /\ ret.out.ok
  /\ nodes' = ret.out.text
  /\ ret' = [op |-> "parse", out |-> parse(ret.out.text)]
  /\ pc' = "parsed"
  /\ UNCHANGED <<data, data2, data3, native>>

\* format of the same value held in another iteration order
FormatReordered ==
  /\ pc = "formatted"
  /\ \E v \in Reorderings(data) :
       /\ data2' = v
       /\ ret' = [op |-> "format2", use_inline |-> ret.use_inline, first |-> ret.out,
                  out |-> format(v, ret.use_inline)]
  /\ pc' = "formatted2"
  /\ UNCHANGED <<data, data3, nodes, native>>

NextPrint == Format \/ ParseBack \/ FormatReordered

SpecPrint == InitPrint /\ [][NextPrint]_vars


(***************************************************************************)
(* Claims about the printer and the parser together.                       *)
(***************************************************************************)
\* C1: for every value without AnyRef, format succeeds and parsing the text
\* gives back a value equal to the one formatted, for both layouts.
C1_RoundTrip ==
  /\ pc = "formatted" => ret.out.ok
  /\ pc = "parsed" => ret.out.ok /\ EdnEq(ret.out.val, data)

EmittedEntries == SubSeq(ret.out.text[1].list, IF data.k = "Map" THEN 2 ELSE 3, Len(ret.out.text[1].list))

\* the key of the Map that an emitted entry shows
EmittedKey(e) ==
  (CHOOSE kv \in {data.kvs[i] : i \in 1..Len(data.kvs)} : assemble_cirru_node(kv[1]).tree = e.list[1])[1]

\* the printer emits a leaf for a literal and a list for anything else
EmittedLiteral(t) == IsLeaf(t)

\* the order the claim gives: a literal value first, else by key
ValueThenKey(e1, e2, keyOrder) ==
  IF EmittedLiteral(e1.list[2]) # EmittedLiteral(e2.list[2])
  THEN EmittedLiteral(e1.list[2])
  ELSE keyOrder # "Greater"

\* C3 as stated: in the tree of any Map and of any Record, of two entries the
\* one whose value is a literal comes first, and two entries whose values are
\* both literal or both structural are ordered by key.
C3_ValueThenKeyOrder ==
  pc = "formatted" /\ ret.out.ok /\ data.k \in {"Map", "Record"} =>
    \A i, j \in 1..Len(EmittedEntries) : i < j =>
      LET e1 == EmittedEntries[i]
          e2 == EmittedEntries[j]
      IN ValueThenKey(e1, e2,
                      IF data.k = "Map" THEN EdnCmp(EmittedKey(e1), EmittedKey(e2))
                      ELSE StrCmp(e1.list[1].leaf, e2.list[1].leaf))

\* the three groups of Map entries, in printing order
EntryGroup(e) ==
  IF ~EmittedLiteral(e.list[1]) THEN 2
  ELSE IF ~EmittedLiteral(e.list[2]) THEN 1
  ELSE 0

NoNaNKey(m) == \A i \in 1..Len(m.kvs) : m.kvs[i][1] # NotANumber

\* C3 amended: a Map (no key NaN) prints its entries with a literal key and a
\* literal value first, then those with a literal key and a structural value,
\* then those with a non-literal key, each group ordered by key; a Record
\* prints literal-valued fields first and orders by field name otherwise.
C3_CanonicalOrder ==
  pc = "formatted" /\ ret.out.ok =>
    /\ data.k = "Map" /\ NoNaNKey(data) =>
         \A i, j \in 1..Len(EmittedEntries) : i < j =>
           LET e1 == EmittedEntries[i]
               e2 == EmittedEntries[j]
           IN /\ EntryGroup(e1) <= EntryGroup(e2)
              /\ EntryGroup(e1) = EntryGroup(e2) => EdnCmp(EmittedKey(e1), EmittedKey(e2)) # "Greater"
    /\ data.k = "Record" =>
         \A i, j \in 1..Len(EmittedEntries) : i < j =>
           ValueThenKey(EmittedEntries[i], EmittedEntries[j],
                        StrCmp(EmittedEntries[i].list[1].leaf, EmittedEntries[j].list[1].leaf))

C3_Witness ==
  /\ pc = "formatted"
  /\ ret.out.ok
  /\ data.k = "Map"
  /\ NoNaNKey(data)
  /\ \E i, j \in 1..Len(data.kvs) :
       /\ ~is_literal(data.kvs[i][1])
       /\ is_literal(data.kvs[i][2])
       /\ is_literal(data.kvs[j][1])
       /\ ~is_literal(data.kvs[j][2])

\* the value of a lowercase hex digit, from its character code
LowerHexValue(c) == IF Ascii[c] <= 57 THEN Ascii[c] - 48 ELSE Ascii[c] - 87

IsLowerHexLeaf(t, b) ==
  /\ IsLeaf(t)
  /\ Len(t.leaf) = 2
  /\ \A i \in 1..2 : t.leaf[i] \in {"0", "1", "2", "3", "4", "5", "6", "7", "8", "9", "a", "b", "c", "d", "e", "f"}
  /\ LowerHexValue(t.leaf[1]) * 16 + LowerHexValue(t.leaf[2]) = b

\* C7: a Buffer prints as `buf` followed by one two-digit lowercase hex leaf
\* per byte, in order, and that form parses back to the same Buffer.
C7_BufferHex ==
  data.k = "Buffer" =>
    /\ pc = "formatted" =>
         /\ ret.out.ok
         /\ Len(ret.out.text) = 1
         /\ ~IsLeaf(ret.out.text[1])
         /\ Len(ret.out.text[1].list) = Len(data.bytes) + 1
         /\ ret.out.text[1].list[1] = Leaf(OpBuf)
         /\ \A i \in 1..Len(data.bytes) : IsLowerHexLeaf(ret.out.text[1].list[i + 1], data.bytes[i])
    /\ pc = "parsed" => ret.out = Parsed(data)

C7_Witness ==
  /\ pc = "parsed"
  /\ data = Buffer(<<10, 255>>)
  /\ nodes = <<CList(<<Leaf(OpBuf), Leaf(<<"0", "a">>), Leaf(<<"f", "f">>)>>)>>
  /\ ret.out = Parsed(data)


(***************************************************************************)
(* Parsing: parse applied to the trees of a bounded set of texts.          *)
(***************************************************************************)
CommentNode == CList(<<Leaf(TxtComment), Leaf(<<"a">>)>>)
UnknownToken == Leaf(<<"x">>)
InvalidForm == CList(<<Leaf(<<"i", "n", "v", "a", "l", "i", "d">>)>>)

\* the children a `[]` form is given
ListItems ==
  {Leaf(<<"1">>), Leaf(<<"2">>), CommentNode, UnknownToken, InvalidForm,
   CList(<<Leaf(OpList), Leaf(<<"1">>), UnknownToken>>)}

\* [] 1 2 (invalid) 4
ListDemo == CList(<<Leaf(OpList), Leaf(<<"1">>), Leaf(<<"2">>), InvalidForm, Leaf(<<"4">>)>>)

ListForms == {CList(<<Leaf(OpList)>> \o s) : s \in SeqsUpTo(ListItems, MaxKids)} \cup {ListDemo}

\* the children a `%{}` form is given after its name
RecordItems ==
  {CList(<<Leaf(<<":", "b">>), Leaf(<<"1">>)>>),
   CList(<<Leaf(<<"a">>), Leaf(<<"|", "x">>)>>),
   CList(<<Leaf(<<":">>), Leaf(<<"1">>)>>),
   CommentNode,
   UnknownToken,
   CList(<<Leaf(<<":", "a">>), InvalidForm>>),
   CList(<<Leaf(<<":", "a">>), Leaf(<<"1">>), Leaf(<<"2">>)>>),
   CList(<<CList(<<>>), Leaf(<<"1">>)>>)}

RecordNames == {Leaf(<<":", "A">>), Leaf(<<"A">>), Leaf(<<":">>), CList(<<>>)}

\* %{} :A (:b 1) (; a) (a |x)
RecordFormDemo ==
  CList(<<Leaf(OpRecord), Leaf(<<":", "A">>), CList(<<Leaf(<<":", "b">>), Leaf(<<"1">>)>>),
          CommentNode, CList(<<Leaf(<<"a">>), Leaf(<<"|", "x">>)>>)>>)

RecordForms ==
  {CList(<<Leaf(OpRecord), n>> \o s) : n \in RecordNames, s \in SeqsUpTo(RecordItems, MaxKids)}
  \cup {CList(<<Leaf(OpRecord)>>), RecordFormDemo}

\* the children a `do` form is given
DoItems ==
  {Leaf(TxtNil), Leaf(TxtTrue), Leaf(<<"1">>), Leaf(<<"'", "s">>), Leaf(<<":", "a">>), Leaf(<<"|", "s">>),
   CommentNode, UnknownToken, InvalidForm,
   CList(<<Leaf(OpList), Leaf(<<"1">>)>>),
   CList(<<Leaf(OpDo), Leaf(<<"2">>)>>),
   CList(<<Leaf(OpDo)>>)}

DoForms == {CList(<<Leaf(OpDo)>> \o s) : s \in SeqsUpTo(DoItems, MaxKids)}

\* the children a `::` or `%::` form is given
TupleItems == {Leaf(<<":", "a">>), Leaf(<<":", "b">>), Leaf(<<"1">>), CommentNode, UnknownToken}

TupleForms ==
  {CList(<<Leaf(op)>> \o s) : op \in {OpTuple, OpEnumTuple}, s \in SeqsUpTo(TupleItems, MaxKids + 1)}

\* the children a `#{}` form is given
SetItems == {Leaf(<<"1">>), Leaf(<<"2">>), CommentNode, UnknownToken, InvalidForm}

SetForms == {CList(<<Leaf(OpSet)>> \o s) : s \in SeqsUpTo(SetItems, MaxKids)}

\* the children a `{}` form is given
MapItems ==
  {CList(<<Leaf(<<":", "a">>), Leaf(<<"1">>)>>),
   CList(<<Leaf(<<":", "b">>), CList(<<Leaf(OpList), Leaf(<<"2">>)>>)>>),
   CommentNode,
   Leaf(<<"1">>),
   CList(<<>>),
   CList(<<Leaf(<<":", "a">>)>>),
   CList(<<Leaf(<<":", "a">>), Leaf(<<"1">>), Leaf(<<"2">>)>>),
   CList(<<Leaf(<<":", "a">>), UnknownToken>>),
   CList(<<UnknownToken, Leaf(<<"1">>)>>),
   CList(<<Leaf(<<":", "a">>), InvalidForm>>),
   CList(<<Leaf(<<":", "a">>), CList(<<Leaf(OpList), UnknownToken>>)>>)}

MapForms == {CList(<<Leaf(OpMap)>> \o s) : s \in SeqsUpTo(MapItems, MaxKids)}

\* the children a `buf` form is given
BufItems ==
  {Leaf(<<"0", "a">>), Leaf(<<"f", "f">>), CommentNode, Leaf(<<"a">>), Leaf(<<"x", "x">>),
   Leaf(<<"0", "a", "0">>), CList(<<Leaf(OpList)>>)}

BufForms == {CList(<<Leaf(OpBuf)>> \o s) : s \in SeqsUpTo(BufItems, MaxKids)}

\* the children an `atom` form is given
AtomItems ==
  {Leaf(<<"1">>), CommentNode, UnknownToken, InvalidForm, CList(<<Leaf(OpAtom), Leaf(<<"1">>)>>),
   CList(<<Leaf(OpBuf), Leaf(<<"x", "x">>)>>)}

AtomForms == {CList(<<Leaf(OpAtom)>> \o s) : s \in SeqsUpTo(AtomItems, MaxKids)}

\* %{} (; a) x (:b 1), and forms nested three deep with a fault at the bottom
NestedForms ==
  {CList(<<Leaf(OpRecord), CommentNode, UnknownToken, CList(<<Leaf(<<":", "b">>), Leaf(<<"1">>)>>)>>),
   CList(<<Leaf(OpList), Leaf(<<"1">>),
           CList(<<Leaf(OpMap), CommentNode,
                   CList(<<Leaf(<<":", "a">>), CList(<<Leaf(OpList), Leaf(<<"1">>), UnknownToken>>)>>)>>)>>),
   CList(<<Leaf(OpList),
           CList(<<Leaf(OpRecord), Leaf(<<"A">>),
                   CList(<<Leaf(<<":", "a">>), CList(<<Leaf(OpSet), Leaf(<<"1">>), InvalidForm>>)>>)>>)>>),
   CList(<<Leaf(OpDo),
           CList(<<Leaf(OpTuple), Leaf(<<":", "a">>),
                   CList(<<Leaf(OpAtom), CList(<<Leaf(OpBuf), Leaf(<<"0", "a">>), Leaf(<<"x", "x">>)>>)>>)>>)>>),
   CList(<<Leaf(OpEnumTuple), Leaf(<<":", "e">>), Leaf(<<":", "a">>), Leaf(<<"1">>), Leaf(<<"2">>)>>),
   CList(<<Leaf(OpEnumTuple), Leaf(<<":", "e">>), Leaf(<<":", "a">>),
           CList(<<Leaf(OpList), Leaf(<<>>)>>)>>),
   CList(<<>>),
   CList(<<CList(<<>>)>>),
   CList(<<Leaf(OpQuote)>>),
   CList(<<Leaf(OpQuote), Leaf(<<"a">>)>>)}

\* what cirru_parser::parse hands to parse: the top-level expressions
ParseInputs ==
  {<<t>> : t \in ListForms \cup RecordForms \cup DoForms \cup TupleForms \cup SetForms
                 \cup MapForms \cup BufForms \cup AtomForms \cup NestedForms}
  \cup {<<>>, <<Leaf(<<"1">>)>>, <<CList(<<Leaf(OpList)>>), CList(<<Leaf(OpList)>>)>>}

InitParse ==
  /\ pc = "text"
  /\ nodes \in ParseInputs
  /\ data = None
  /\ data2 = None
  /\ data3 = None
  /\ native = None
  /\ ret = None

\* parse(s)
Parse ==
  /\ pc = "text"
  /\ ret' = [op |-> "parse", out |-> parse(nodes)]
  /\ pc' = "parsed"
  /\ UNCHANGED <<data, data2, data3, nodes, native>>

\* format(&v, use_inline) of the value parse returned
FormatParsed ==
  /\ pc = "parsed"
  /\ ret.out.ok
  /\ data' = ret.out.val
  /\ \E use_inline \in BOOLEAN :
       ret' = [op |-> "format", use_inline |-> use_inline, out |-> format(ret.out.val, use_inline)]
  /\ pc' = "formatted"
  /\ UNCHANGED <<data2, data3, nodes, native>>

\* Edn::record_from_pairs(tag, &pairs); EdnRecordView::new(tag) followed by
\* insert(k, v) for each pair builds the same value
RecordFromPairs ==
  /\ pc = "text"
  /\ \E tag \in {<<>>, <<"A">>}, pairs \in SeqsUpTo({<<<<>>, One>>, <<<<"a">>, One>>}, MaxLen) :
       ret' = [op |-> "record_from_pairs", out |-> Parsed(Record(tag, pairs))]
  /\ pc' = "built"
  /\ UNCHANGED <<data, data2, data3, nodes, native>>

NextParse == Parse \/ FormatParsed \/ RecordFromPairs

SpecParse == InitParse /\ [][NextParse]_vars

\* the 0-based positions of the children of xs that parse looks at, from `from` on
Items(xs, from) == {i \in from..(Len(xs) - 1) : ~is_comment(xs[i + 1])}

\* the positions of the items that do not parse on their own
Failing(xs) == {i \in Items(xs, 1) : ~extract_cirru_edn_with_path(xs[i + 1], <<>>).ok}

\* C4 as stated: parsing `[] 1 2 (invalid) 4` fails with a StructureError
\* whose path is index 2, the index of the item in the list.
C4_PathIsListIndex ==
  pc = "parsed" /\ nodes = <<ListDemo>> =>
    ~ret.out.ok /\ ret.out.kind = "StructureError" /\ ret.out.path = <<2>>

\* C4 amended: when an item of a `[]` form does not parse, parse fails with
\* the error of the first such item, its path being the item's 0-based
\* position among the children of the form, the operator `[]` being child 0
\* and comments counted, followed by the path of the item's own error; so
\* `[] 1 2 (invalid) 4` gives a StructureError with path [3].
C4_ListItemErrorPath ==
  pc = "parsed" /\ Len(nodes) = 1 /\ ~IsLeaf(nodes[1]) /\ nodes[1].list # <<>>
    /\ nodes[1].list[1] = Leaf(OpList) /\ Failing(nodes[1].list) # {} =>
      LET xs == nodes[1].list
          i == CHOOSE m \in Failing(xs) : \A n \in Failing(xs) : m <= n
          e == extract_cirru_edn_with_path(xs[i + 1], <<>>)
      IN /\ ~ret.out.ok
         /\ ret.out.kind = e.kind
         /\ ret.out.message = e.message
         /\ ret.out.path = <<i>> \o e.path
         /\ nodes[1] = ListDemo => ret.out.kind = "StructureError" /\ ret.out.path = <<3>>

C4_Witness ==
  /\ pc = "parsed"
  /\ nodes = <<ListDemo>>
  /\ ~ret.out.ok
  /\ ret.out.kind = "StructureError"
  /\ ret.out.path = <<3>>

\* a name or a field as the Record holds it
WithoutLeadingColon(s) == IF s # <<>> /\ s[1] = ":" THEN SubSeq(s, 2, Len(s)) ELSE s

\* a child that is a (field value) pair: a leaf and a value that parses
IsFieldPair(x) ==
  /\ ~IsLeaf(x)
  /\ Len(x.list) = 2
  /\ IsLeaf(x.list[1])
  /\ extract_cirru_edn_with_path(x.list[2], <<>>).ok

\* the i-th smallest member of a set of numbers
RECURSIVE Nth(_, _)
Nth(S, i) ==
  LET m == CHOOSE x \in S : \A y \in S : x <= y IN
  IF i = 1 THEN m ELSE Nth(S \ {m}, i - 1)

\* C5: a `%{}` form with a name and no field pair after it (comments aside)
\* fails with a StructureError; a `%{}` form with a leaf name followed by
\* one or more (field value) pairs (comments aside) gives the Record with
\* that name without a leading ':' and the fields in source order.
C5_RecordArity ==
  pc = "parsed" /\ Len(nodes) = 1 /\ ~IsLeaf(nodes[1]) /\ Len(nodes[1].list) >= 2
    /\ nodes[1].list[1] = Leaf(OpRecord) =>
      LET xs == nodes[1].list
          kids == Items(xs, 2)
      IN /\ kids = {} => ~ret.out.ok /\ ret.out.kind = "StructureError"
         /\ kids # {} /\ IsLeaf(xs[2]) /\ (\A i \in kids : IsFieldPair(xs[i + 1])) =>
              ret.out = Parsed(Record(WithoutLeadingColon(xs[2].leaf),
                                      [j \in 1..Cardinality(kids) |->
                                         LET x == xs[Nth(kids, j) + 1] IN
                                         <<WithoutLeadingColon(x.list[1].leaf),
                                           extract_cirru_edn_with_path(x.list[2], <<>>).val>>]))

C5_Witness ==
  /\ pc = "parsed"
  /\ nodes = <<RecordFormDemo>>
  /\ ret.out = Parsed(Record(<<"A">>, <<<<<<"b">>, One>>, <<<<"a">>, Str(<<"x">>)>>>>))


(***************************************************************************)
(* Equality, hashing and comparison applied to bounded sets of values.     *)
(***************************************************************************)
OrdValues ==
  {Nil, Bool(FALSE), Bool(TRUE), One, Two, BelowOne, NotANumber, SymA, TagA, TagB, StrA,
   Quote(Leaf(<<"a">>)), Buffer(<<>>), Buffer(<<0>>), Atom(One), Tuple(TagB, <<>>, <<>>),
   List(<<NotANumber, One>>), Record(<<"B">>, <<<<<<"a">>, One>>>>)}
  \cup {Tuple(TagA, e, s) : e \in {<<>>, <<TagB>>}, s \in {<<>>, <<One>>}}
  \cup {List(s) : s \in SeqsUpTo({One, Two}, MaxLen)}
  \cup {Set(s) : s \in SetSeqs({One, Two}, MaxLen)}
  \cup {Map(s) : s \in MapSeqs({TagA, TagB}, {One}, MaxLen)}
  \cup {Record(<<"A">>, s) : s \in SeqsUpTo({<<"a">>, <<"b">>} \X {One}, MaxLen) \ {<<>>}}

InitOrd ==
  /\ pc = "pair"
  /\ data \in OrdValues
  /\ data2 \in OrdValues
  /\ data3 = None
  /\ nodes = <<>>
  /\ native = None
  /\ ret = None

\* a == b, and both hashed
HashBoth ==
  /\ pc = "pair"
  /\ ret' = [op |-> "hash", eq |-> EdnEq(data, data2), ha |-> EdnHash(data), hb |-> EdnHash(data2)]
  /\ pc' = "hashed"
  /\ UNCHANGED <<data, data2, data3, nodes, native>>

\* a.cmp(&b) and the comparisons the order laws relate it to
CompareThree ==
  /\ pc = "pair"
  /\ \E c \in OrdValues :
       /\ data3' = c
       /\ ret' = [op |-> "cmp", aa |-> EdnCmp(data, data), ab |-> EdnCmp(data, data2),
                  ba |-> EdnCmp(data2, data), bc |-> EdnCmp(data2, c), ac |-> EdnCmp(data, c)]
  /\ pc' = "compared"
  /\ UNCHANGED <<data, data2, nodes, native>>

NextOrd == HashBoth \/ CompareThree

SpecOrd == InitOrd /\ [][NextOrd]_vars

\* C8: equal values hash equally, near-equal Numbers included.
C8_HashConsistentWithEq ==
  pc = "hashed" => (ret.eq => ret.ha = ret.hb)

\* C9: two equal Sets, or two equal Maps, that iterate their elements in
\* different orders have the same hash.
C9_HashOrderIndependent ==
  pc = "hashed" /\ data.k \in {"Set", "Map"} /\ data2.k = data.k /\ ret.eq => ret.ha = ret.hb

\* the precedence of the variants, lowest first
Precedence ==
  <<"Nil", "Bool", "Number", "Symbol", "Tag", "Str", "Quote", "Tuple", "List", "Buffer", "Set",
    "Map", "Record", "Atom">>

PrecedenceOf(v) == CHOOSE i \in 1..Len(Precedence) : Precedence[i] = v.k

Opposite(o) ==
  CASE o = "Less" -> "Greater"
    [] o = "Greater" -> "Less"
    [] o = "Equal" -> "Equal"
    [] OTHER -> "None"

\* C10: comparison follows the precedence of the variants when they differ,
\* and for all values a, b, c without AnyRef cmp(a, a) = Equal, cmp(a, b) is
\* the reverse of cmp(b, a), and cmp(a, b) = cmp(b, c) = Less gives
\* cmp(a, c) = Less.
C10_TotalOrder ==
  pc = "compared" =>
    /\ data.k # data2.k =>
         ret.ab = (IF PrecedenceOf(data) < PrecedenceOf(data2) THEN "Less" ELSE "Greater")
    /\ ret.aa = "Equal"
    /\ ret.ab = Opposite(ret.ba)
    /\ ret.ab = "Less" /\ ret.bc = "Less" => ret.ac = "Less"


(***************************************************************************)
(* The bridge: to_edn.  A native value is what its Serialize               *)
(* implementation tells the serializer: a bool, an integer, a string, an   *)
(* Option, a sequence, a map, or a struct with named fields.               *)
(***************************************************************************)
NBool(b) == [k |-> "NBool", b |-> b]
NInt(i) == [k |-> "NInt", i |-> i]
NStr(s) == [k |-> "NStr", s |-> s]
NNone == [k |-> "NNone"]
NSome(x) == [k |-> "NSome", x |-> x]
NSeq(items) == [k |-> "NSeq", items |-> items]
NMap(entries) == [k |-> "NMap", entries |-> entries]
NStruct(name, fields) == [k |-> "NStruct", name |-> name, fields |-> fields]
NFloat(n) == [k |-> "NFloat", n |-> n]
\* a value of an enum: the variant, its shape (unit, newtype, tuple, struct)
\* and what it carries
NVariant(name, variant, shape, payload) ==
  [k |-> "NVariant", name |-> name, variant |-> variant, shape |-> shape, payload |-> payload]
NUnit == [k |-> "NUnit"]
\* a Serialize impl that returns Err(ser::Error::custom(message))
NFail(message) == [k |-> "NFail", message |-> message]

KeyVariant == <<"_", "_", "v", "a", "r", "i", "a", "n", "t">>

\* SerializeStruct::serialize_field with a Str key
serialize_field_str(map, key, value) == MapInsert(map, Str(key), value)

\* SerializeStruct::serialize_field
serialize_field(map, key, value) == MapInsert(map, Tag(key), value)

\* SerializeMap::serialize_key and serialize_value
serialize_entry(map, key, value) == MapInsert(map, key, value)

\* value.serialize(EdnSerializer)
RECURSIVE serialize(_)
RECURSIVE SerializeElements(_)
RECURSIVE SerializeEntries(_, _)
RECURSIVE SerializeFields(_, _)
serialize(x) ==
  CASE x.k = "NBool" -> Bool(x.b)
    [] x.k = "NInt" -> Number(Fin(x.i, 0))
    [] x.k = "NStr" -> Str(x.s)
    [] x.k = "NNone" -> Nil
    [] x.k = "NUnit" -> Nil
    [] x.k = "NFloat" -> Number(x.n)
    [] x.k = "NVariant" ->
         (CASE x.shape = "unit" -> Str(x.variant)
            [] x.shape = "newtype" -> Map(<<<<Str(x.variant), serialize(x.payload)>>>>)
            [] x.shape = "tuple" -> List(SerializeElements(x.payload))
            [] x.shape = "struct" ->
                 Map(SerializeFields(x.payload, <<<<Str(KeyVariant), Str(x.variant)>>>>)))
    [] x.k = "NSome" -> serialize(x.x)
    [] x.k = "NSeq" -> List(SerializeElements(x.items))
    [] x.k = "NMap" -> Map(SerializeEntries(x.entries, <<>>))
    [] x.k = "NStruct" -> Map(SerializeFields(x.fields, <<>>))
SerializeElements(items) ==
  IF items = <<>> THEN <<>> ELSE <<serialize(Head(items))>> \o SerializeElements(Tail(items))
SerializeEntries(entries, map) ==
  IF entries = <<>> THEN map
  ELSE SerializeEntries(Tail(entries),
                        serialize_entry(map, serialize(Head(entries)[1]), serialize(Head(entries)[2])))
SerializeFields(fields, map) ==
  IF fields = <<>> THEN map
  ELSE SerializeFields(Tail(fields), serialize_field(map, Head(fields)[1], serialize(Head(fields)[2])))

\* the errors met while serializing x, in the order of the traversal; the
\* first one ends the serialization (the ? after every nested serialize)
RECURSIVE Failures(_)
RECURSIVE FailuresIn(_)
Failures(x) ==
  CASE x.k = "NFail" -> <<x.message>>
    [] x.k = "NSome" -> Failures(x.x)
    [] x.k = "NSeq" -> FailuresIn(x.items)
    [] x.k = "NMap" ->
         FailuresIn([i \in 1..(2 * Len(x.entries)) |-> x.entries[(i + 1) \div 2][2 - (i % 2)]])
    [] x.k = "NStruct" -> FailuresIn([i \in 1..Len(x.fields) |-> x.fields[i][2]])
    [] OTHER -> <<>>
FailuresIn(xs) == IF xs = <<>> THEN <<>> ELSE Failures(Head(xs)) \o FailuresIn(Tail(xs))

to_edn(value) ==
  IF Failures(value) = <<>> THEN [ok |-> TRUE, val |-> serialize(value)]
  ELSE [ok |-> FALSE, message |-> Head(Failures(value))]

(***************************************************************************)
(* impl Display for Edn, used for the keys of a Map by impl Serialize.     *)
(***************************************************************************)
SimpleChars ==
  {"0", "1", "2", "3", "4", "5", "6", "7", "8", "9", "-", "?", ".", "$", ",", "'"}
  \cup {"a", "b", "c", "d", "e", "f", "g", "h", "i", "j", "k", "l", "m",
        "n", "o", "p", "q", "r", "s", "t", "u", "v", "w", "x", "y", "z"}
  \cup {"A", "B", "C", "D", "E", "F", "G", "H", "I", "J", "K", "L", "M",
        "N", "O", "P", "Q", "R", "S", "T", "U", "V", "W", "X", "Y", "Z"}

is_simple_char(c) == c \in SimpleChars

is_simple_token(tok) == \A i \in 1..Len(tok) : is_simple_char(tok[i])

\* char::escape_default on printable ASCII
EscapeDefault(c) == IF c \in {"\"", "\\", "'"} THEN <<"\\", c>> ELSE <<c>>

RECURSIVE EscapedStr(_)
EscapedStr(s) ==
  IF s = <<>> THEN <<>>
  ELSE (IF is_simple_char(Head(s)) THEN <<Head(s)>> ELSE EscapeDefault(Head(s))) \o EscapedStr(Tail(s))

TxtAnyRef == <<"(", "a", "n", "y", "-", "r", "e", "f", " ", ".", ".", ".", ")">>

RECURSIVE Display(_)
RECURSIVE DisplayEach(_)
RECURSIVE DisplayEntries(_)
RECURSIVE DisplayFields(_)
Display(v) ==
  CASE v.k = "Nil" -> TxtNil
    [] v.k = "Bool" -> IF v.b THEN TxtTrue ELSE TxtFalse
    [] v.k = "Number" -> NumText(v.n)
    [] v.k = "Symbol" -> <<"'">> \o v.s
    [] v.k = "Tag" -> <<":">> \o v.s
    [] v.k = "Str" ->
         IF is_simple_token(v.s) THEN <<"|">> \o v.s
         ELSE <<"\"", "|">> \o EscapedStr(v.s) \o <<"\"">>
    [] v.k = "Tuple" -> <<"(", ":", ":", " ">> \o Display(v.tag) \o DisplayEach(v.extra) \o <<")">>
    [] v.k = "List" -> <<"(">> \o OpList \o DisplayEach(v.xs) \o <<")">>
    [] v.k = "Set" -> <<"(">> \o OpSet \o DisplayEach(v.xs) \o <<")">>
    [] v.k = "Map" -> <<"(">> \o OpMap \o DisplayEntries(v.kvs) \o <<")">>
    [] v.k = "Record" ->
         <<"(">> \o OpRecord \o <<" ", ":">> \o v.rtag \o DisplayFields(v.pairs) \o <<")">>
    [] v.k = "Buffer" ->
         <<"(">> \o OpBuf
           \o [i \in 1..(3 * Len(v.bytes)) |->
                IF i % 3 = 1 THEN " " ELSE HexEncode(v.bytes[(i + 2) \div 3])[((i + 1) % 3) + 1]]
           \o <<")">>
    [] v.k = "AnyRef" -> TxtAnyRef
    [] v.k = "Atom" -> <<"(">> \o OpAtom \o <<" ">> \o Display(v.x) \o <<")">>
DisplayEach(xs) ==
  IF xs = <<>> THEN <<>> ELSE <<" ">> \o Display(Head(xs)) \o DisplayEach(Tail(xs))
DisplayEntries(kvs) ==
  IF kvs = <<>> THEN <<>>
  ELSE <<" ", "(">> \o Display(Head(kvs)[1]) \o <<" ">> \o Display(Head(kvs)[2]) \o <<")">>
         \o DisplayEntries(Tail(kvs))
DisplayFields(pairs) ==
  IF pairs = <<>> THEN <<>>
  ELSE <<" ", "(">> \o Display(Tag(Head(pairs)[1])) \o <<" ">> \o Display(Head(pairs)[2]) \o <<")">>
         \o DisplayFields(Tail(pairs))

(***************************************************************************)
(* impl Serialize for Edn: what an Edn value tells a serializer.  The      *)
(* Tuple arm binds tag and extra only; the Quote arm hands the tree to the *)
(* Serialize impl of Cirru, which is outside this crate.                   *)
(***************************************************************************)
EdnPrefix == <<"_", "_", "e", "d", "n", "_">>
KeySymbol == EdnPrefix \o <<"s", "y", "m", "b", "o", "l">>
KeyTag == EdnPrefix \o <<"t", "a", "g">>
KeyTupleTag == EdnPrefix \o <<"t", "u", "p", "l", "e", "_", "t", "a", "g">>
KeyTupleExtra == EdnPrefix \o <<"t", "u", "p", "l", "e", "_", "e", "x", "t", "r", "a">>
KeySet == EdnPrefix \o <<"s", "e", "t">>
KeyRecordTag == EdnPrefix \o <<"r", "e", "c", "o", "r", "d", "_", "t", "a", "g">>
KeyBuffer == EdnPrefix \o <<"b", "u", "f", "f", "e", "r">>
KeyAtom == EdnPrefix \o <<"a", "t", "o", "m">>
KeyQuote == EdnPrefix \o <<"q", "u", "o", "t", "e">>

AnyRefMessage == "AnyRef type cannot be serialized"

\* a one-entry map under a sentinel key
Sentinel(key, x) == NMap(<<<<NStr(key), x>>>>)

RECURSIVE EdnSerialize(_)
RECURSIVE EdnSerializeEach(_)
RECURSIVE EdnSerializeEntries(_)
RECURSIVE EdnSerializePairs(_)
EdnSerialize(v) ==
  CASE v.k = "Nil" -> NUnit
    [] v.k = "Bool" -> NBool(v.b)
    [] v.k = "Number" -> NFloat(v.n)
    [] v.k = "Symbol" -> Sentinel(KeySymbol, NStr(v.s))
    [] v.k = "Tag" -> Sentinel(KeyTag, NStr(v.s))
    [] v.k = "Str" -> NStr(v.s)
    [] v.k = "Tuple" ->
         NMap(<<<<NStr(KeyTupleTag), EdnSerialize(v.tag)>>,
                <<NStr(KeyTupleExtra), NSeq(EdnSerializeEach(v.extra))>>>>)
    [] v.k = "List" -> NSeq(EdnSerializeEach(v.xs))
    [] v.k = "Set" -> Sentinel(KeySet, NSeq(EdnSerializeEach(v.xs)))
    [] v.k = "Map" -> NMap(EdnSerializeEntries(v.kvs))
    [] v.k = "Record" ->
         NMap(<<<<NStr(KeyRecordTag), NStr(v.rtag)>>>> \o EdnSerializePairs(v.pairs))
    [] v.k = "Buffer" -> Sentinel(KeyBuffer, NSeq([i \in 1..Len(v.bytes) |-> NInt(v.bytes[i])]))
    [] v.k = "AnyRef" -> NFail(AnyRefMessage)
    [] v.k = "Atom" -> Sentinel(KeyAtom, EdnSerialize(v.x))
EdnSerializeEach(xs) ==
  IF xs = <<>> THEN <<>> ELSE <<EdnSerialize(Head(xs))>> \o EdnSerializeEach(Tail(xs))
\* a Str key as it is, any other key by its Display text
EdnSerializeEntries(kvs) ==
  IF kvs = <<>> THEN <<>>
  ELSE <<<<NStr(IF Head(kvs)[1].k = "Str" THEN Head(kvs)[1].s ELSE Display(Head(kvs)[1])),
           EdnSerialize(Head(kvs)[2])>>>>
         \o EdnSerializeEntries(Tail(kvs))
EdnSerializePairs(pairs) ==
  IF pairs = <<>> THEN <<>>
  ELSE <<<<NStr(Head(pairs)[1]), EdnSerialize(Head(pairs)[2])>>>> \o EdnSerializePairs(Tail(pairs))

(***************************************************************************)
(* from_edn.  A target type is what its Deserialize impl asks of the       *)
(* deserializer: the method it calls and the visitor it passes.            *)
(***************************************************************************)
TBool == [t |-> "bool"]
TI64 == [t |-> "i64"]
TU8 == [t |-> "u8"]
TF64 == [t |-> "f64"]
TString == [t |-> "String"]
TEdn == [t |-> "Edn"]
TOption(of) == [t |-> "Option", of |-> of]
TVec(of) == [t |-> "Vec", of |-> of]
THashSet(of) == [t |-> "HashSet", of |-> of]
THashMap(of) == [t |-> "HashMap", of |-> of]
\* fields: <<name, type>> in the order of declaration
TStruct(name, fields) == [t |-> "struct", name |-> name, fields |-> fields]
\* variants: <<name, shape, what it carries>>
TEnum(name, variants) == [t |-> "enum", name |-> name, variants |-> variants]

DeOk(x) == [ok |-> TRUE, val |-> x]
DeErr(message) == [ok |-> FALSE, message |-> message]

\* `n as i64`: truncation toward zero, NaN gives 0
AsI64(n) ==
  IF n.c = "nan" THEN 0
  ELSE IF n.o < 0 /\ n.w > 0 THEN n.w - 1
  ELSE IF n.o > 0 /\ n.w < 0 THEN n.w + 1
  ELSE n.w

\* n.fract().abs() < f64::EPSILON: the fraction of w + o * 2^-53
FractBelowEpsilon(n) ==
  /\ n.c = "fin"
  /\ Abs(n.o) < EpsilonUnits
  /\ ~(n.o < 0 /\ n.w > 0)
  /\ ~(n.o > 0 /\ n.w < 0)

\* `*n as u8`: truncation toward zero, saturating
AsU8(n) == IF NumAsUsize(n) > 255 THEN 255 ELSE NumAsUsize(n)

\* deserialize_str that takes a Str only
deserialize_str_only(v) ==
  IF v.k = "Str" THEN DeOk(NStr(v.s)) ELSE DeErr("Expected string or tag")

\* deserialize_str with the visitor of String: a Str or a Tag gives its text
deserialize_str(v) ==
  IF v.k \in {"Str", "Tag"} THEN DeOk(NStr(v.s)) ELSE DeErr("Expected string or tag")

\* visit_some that hands the inner value on as it is
WrappedBare(r) == r

\* visit_some(d): the inner value, wrapped
Wrapped(r) == IF r.ok THEN DeOk(NSome(r.val)) ELSE r

\* one more element after those read so far; the first error ends the loop
Pushed(acc, r) == IF ~acc.ok THEN acc ELSE IF ~r.ok THEN r ELSE DeOk(Append(acc.val, r.val))

\* HashSet::insert and HashMap::insert on native values
NativeSetInsert(acc, r) ==
  IF ~acc.ok THEN acc
  ELSE IF ~r.ok THEN r
  ELSE IF \E j \in 1..Len(acc.val) : acc.val[j] = r.val THEN acc
  ELSE DeOk(Append(acc.val, r.val))
NativeMapInsert(acc, rk, rv) ==
  IF ~acc.ok THEN acc
  ELSE IF ~rk.ok THEN rk
  ELSE IF ~rv.ok THEN rv
  ELSE IF \E j \in 1..Len(acc.val) : acc.val[j][1] = rk.val
  THEN DeOk([j \in 1..Len(acc.val) |->
               IF acc.val[j][1] = rk.val THEN <<rk.val, rv.val>> ELSE acc.val[j]])
  ELSE DeOk(Append(acc.val, <<rk.val, rv.val>>))

\* the collection a visitor returns
AsSeq(acc) == IF acc.ok THEN DeOk(NSeq(acc.val)) ELSE acc
AsMap(acc) == IF acc.ok THEN DeOk(NMap(acc.val)) ELSE acc
AsStruct(name, acc) == IF acc.ok THEN DeOk(NStruct(name, acc.val)) ELSE acc
AsVariant(name, decl, r) == IF r.ok THEN DeOk(NVariant(name, decl[1], decl[2], r.val)) ELSE r

\* the declared fields (or variants) with the given name
Named(decls, name) == {j \in 1..Len(decls) : decls[j][1] = name}

\* the derived visit_map, one entry: the key is an identifier (a Str or a
\* Tag), an unknown field is skipped, a field met twice is an error
FieldMet(acc, name, rv) ==
  IF \E j \in 1..Len(acc.val) : acc.val[j][1] = name THEN DeErr("duplicate field")
  ELSE IF ~rv.ok THEN rv
  ELSE DeOk(Append(acc.val, <<name, rv.val>>))

\* the value read for a field
Found(found, name) == found[CHOOSE j \in 1..Len(found) : found[j][1] = name][2]

Prepended(h, r) == IF r.ok THEN DeOk(<<h>> \o r.val) ELSE r

\* the end of the derived visit_map: the declared fields in order; a field
\* that was not met is None when it is an Option and an error otherwise
RECURSIVE Finished(_, _, _)
Finished(fields, found, i) ==
  IF i > Len(fields) THEN DeOk(<<>>)
  ELSE IF \E j \in 1..Len(found) : found[j][1] = fields[i][1]
  THEN Prepended(<<fields[i][1], Found(found, fields[i][1])>>, Finished(fields, found, i + 1))
  ELSE IF fields[i][2].t = "Option"
  THEN Prepended(<<fields[i][1], NNone>>, Finished(fields, found, i + 1))
  ELSE DeErr("missing field")

FinishedStruct(fields, acc) == IF acc.ok THEN Finished(fields, acc.val, 1) ELSE acc

\* special_data.get(key)
Special(acc, key) ==
  IF \E j \in 1..Len(acc.special) : acc.special[j][1] = key
  THEN <<acc.special[CHOOSE j \in 1..Len(acc.special) : acc.special[j][1] = key][2]>>
  ELSE <<>>

\* key.starts_with("__edn_")
IsSpecialKey(key) == Len(key) >= Len(EdnPrefix) /\ SubSeq(key, 1, Len(EdnPrefix)) = EdnPrefix

\* what the loop of EdnVisitor::visit_map holds
MapState(special_type, special, result) ==
  [ok |-> TRUE, special_type |-> special_type, special |-> special, result |-> result]

\* one entry of EdnVisitor::visit_map: key is the String read by next_key,
\* rv the Edn read by next_value
EntryMet(acc, key, rv) ==
  IF ~rv.ok THEN rv
  ELSE IF IsSpecialKey(key)
  THEN MapState(IF acc.special_type = <<>> THEN <<key>> ELSE acc.special_type,
                MapInsert(acc.special, Str(key), rv.val), acc.result)
  ELSE MapState(acc.special_type, acc.special, MapInsert(acc.result, Str(key), rv.val))

\* for item in items: Number(n) => buffer.push(*n as u8)
BufferOf(items) ==
  IF \A i \in 1..Len(items) : items[i].k = "Number"
  THEN DeOk(Buffer([i \in 1..Len(items) |-> AsU8(items[i].n)]))
  ELSE DeErr("Invalid buffer data")

\* items.iter().cloned().collect() into a HashSet
RECURSIVE CollectSet(_, _)
CollectSet(items, n) == IF n = 0 THEN <<>> ELSE SetInsert(CollectSet(items, n - 1), items[n])

\* the tail of EdnVisitor::visit_map: the value a finished map stands for.
\* The __edn_quote arm calls the Deserialize impl of Cirru, which is outside
\* this crate; it has no arm here.
SpecialValue(acc, stype) ==
  CASE stype = KeySymbol ->
         IF Special(acc, Str(KeySymbol)) # <<>> /\ Special(acc, Str(KeySymbol))[1].k = "Str"
         THEN DeOk(Symbol(Special(acc, Str(KeySymbol))[1].s))
         ELSE DeErr("Invalid symbol data")
    [] stype = KeyTag ->
         IF Special(acc, Str(KeyTag)) # <<>> /\ Special(acc, Str(KeyTag))[1].k = "Str"
         THEN DeOk(Tag(Special(acc, Str(KeyTag))[1].s))
         ELSE DeErr("Invalid tag data")
    [] stype = KeyTupleTag ->
         IF Special(acc, Str(KeyTupleTag)) # <<>> /\ Special(acc, Str(KeyTupleExtra)) # <<>>
         THEN IF Special(acc, Str(KeyTupleExtra))[1].k = "List"
              THEN DeOk(Tuple(Special(acc, Str(KeyTupleTag))[1], <<>>,
                              Special(acc, Str(KeyTupleExtra))[1].xs))
              ELSE DeErr("Invalid tuple extra data")
         ELSE DeErr("Invalid tuple data")
    [] stype = KeySet ->
         IF Special(acc, Str(KeySet)) # <<>> /\ Special(acc, Str(KeySet))[1].k = "List"
         THEN DeOk(Set(CollectSet(Special(acc, Str(KeySet))[1].xs,
                                  Len(Special(acc, Str(KeySet))[1].xs))))
         ELSE DeErr("Invalid set data")
    [] stype = KeyBuffer ->
         IF Special(acc, Str(KeyBuffer)) # <<>> /\ Special(acc, Str(KeyBuffer))[1].k = "List"
         THEN BufferOf(Special(acc, Str(KeyBuffer))[1].xs)
         ELSE DeErr("Invalid buffer data")
    [] stype = KeyRecordTag ->
         IF Special(acc, Str(KeyRecordTag)) # <<>> /\ Special(acc, Str(KeyRecordTag))[1].k = "Str"
         THEN DeOk(Record(Special(acc, Str(KeyRecordTag))[1].s,
                          [i \in 1..Len(acc.result) |-> <<acc.result[i][1].s, acc.result[i][2]>>]))
         ELSE DeErr("Invalid record tag")
    [] stype = KeyAtom ->
         IF Special(acc, Str(KeyAtom)) # <<>>
         THEN DeOk(Atom(Special(acc, Str(KeyAtom))[1]))
         ELSE DeErr("Invalid atom data")
    [] stype \notin {KeySymbol, KeyTag, KeyTupleTag, KeySet, KeyBuffer, KeyRecordTag, KeyAtom,
                     KeyQuote} ->
         DeErr("Unknown special type")

FinishedMap(acc) ==
  IF ~acc.ok THEN acc
  ELSE IF acc.special_type # <<>> THEN SpecialValue(acc, acc.special_type[1])
  ELSE DeOk(Map(acc.result))

AsList(acc) == IF acc.ok THEN DeOk(List(acc.val)) ELSE acc

(***************************************************************************)
(* T::deserialize(EdnDeserializer::new(v)).  The entries of a HashMap are  *)
(* read in the order in which v holds them; a HashMap the visitor builds   *)
(* is read back in the order of its insertions.                            *)
(***************************************************************************)
RECURSIVE Deserialize(_, _)
RECURSIVE SeqElements(_, _, _)
RECURSIVE SetElements(_, _, _)
RECURSIVE MapEntries(_, _, _)
RECURSIVE StructEntries(_, _, _)
RECURSIVE TupleElements(_, _, _)
RECURSIVE EdnEntries(_, _)
\* one entry of the derived visit_map
StructEntry(fields, acc, key, value) ==
  IF ~acc.ok THEN acc
  ELSE IF key.k \notin {"Str", "Tag"} THEN DeErr("Expected string or tag")
  ELSE IF Named(fields, key.s) = {} THEN acc
  ELSE FieldMet(acc, key.s, Deserialize(fields[CHOOSE j \in Named(fields, key.s) : TRUE][2], value))

\* one entry of EdnVisitor::visit_map
EdnEntry(acc, key, value) ==
  IF ~acc.ok THEN acc
  ELSE IF key.k \notin {"Str", "Tag"} THEN DeErr("Expected string or tag")
  ELSE EntryMet(acc, key.s, Deserialize(TEdn, value))

\* what follows the variant name: the VariantAccess method of the shape
VariantValue(name, decl, value) ==
  CASE decl[2] = "unit" ->
         IF value # <<>> THEN DeErr("Expected unit variant") ELSE AsVariant(name, decl, DeOk(<<>>))
    [] decl[2] = "newtype" ->
         IF value = <<>> THEN DeErr("Expected newtype variant")
         ELSE AsVariant(name, decl, Deserialize(decl[3], value[1]))
    [] decl[2] = "tuple" ->
         IF value = <<>> THEN DeErr("Expected tuple variant")
         ELSE IF value[1].k # "List" THEN DeErr("Expected list for tuple variant")
         ELSE AsVariant(name, decl, TupleElements(decl[3], value[1].xs, Len(decl[3])))
    [] decl[2] = "struct" ->
         IF value = <<>> THEN DeErr("Expected struct variant")
         ELSE IF value[1].k # "Map" THEN DeErr("Expected map for struct variant")
         ELSE AsVariant(name, decl,
                        FinishedStruct(decl[3], StructEntries(decl[3], value[1].kvs, Len(value[1].kvs))))

\* the derived visit_enum: the variant by its name, then its value
VisitEnum(ty, variant, value) ==
  IF Named(ty.variants, variant) = {} THEN DeErr("unknown variant")
  ELSE VariantValue(ty.name, ty.variants[CHOOSE j \in Named(ty.variants, variant) : TRUE], value)

Deserialize(ty, v) ==
  CASE ty.t = "bool" -> IF v.k = "Bool" THEN DeOk(NBool(v.b)) ELSE DeErr("Expected boolean")
    [] ty.t = "i64" -> IF v.k = "Number" THEN DeOk(NInt(AsI64(v.n))) ELSE DeErr("Expected number")
    [] ty.t = "u8" ->
         IF v.k # "Number" THEN DeErr("Expected number")
         ELSE IF NumAsUsize(v.n) > 255 THEN DeErr("invalid value")
         ELSE DeOk(NInt(NumAsUsize(v.n)))
    [] ty.t = "f64" -> IF v.k = "Number" THEN DeOk(NFloat(v.n)) ELSE DeErr("Expected number")
    [] ty.t = "String" -> deserialize_str(v)
    [] ty.t = "Option" -> IF v.k = "Nil" THEN DeOk(NNone) ELSE Wrapped(Deserialize(ty.of, v))
    [] ty.t = "Vec" ->
         IF v.k = "List" THEN AsSeq(SeqElements(ty.of, v.xs, Len(v.xs))) ELSE DeErr("Expected list")
    [] ty.t = "HashSet" ->
         IF v.k = "List" THEN AsSeq(SetElements(ty.of, v.xs, Len(v.xs))) ELSE DeErr("Expected list")
    [] ty.t = "HashMap" ->
         IF v.k = "Map" THEN AsMap(MapEntries(ty.of, v.kvs, Len(v.kvs))) ELSE DeErr("Expected map")
    [] ty.t = "struct" ->
         IF v.k = "Map"
         THEN AsStruct(ty.name, FinishedStruct(ty.fields, StructEntries(ty.fields, v.kvs, Len(v.kvs))))
         ELSE DeErr("Expected map")
    [] ty.t = "enum" ->
         IF v.k = "Str" THEN VisitEnum(ty, v.s, <<>>)
         ELSE IF v.k # "Map" THEN DeErr("Expected string or map for enum")
         ELSE IF Len(v.kvs) # 1 THEN DeErr("Expected single-entry map for enum")
         ELSE IF v.kvs[1][1].k # "Str" THEN DeErr("Expected string key for enum variant")
         ELSE VisitEnum(ty, v.kvs[1][1].s, <<v.kvs[1][2]>>)
    [] ty.t = "Edn" ->
         CASE v.k = "Nil" -> DeOk(Nil)
           [] v.k = "Bool" -> DeOk(v)
           [] v.k = "Number" ->
                IF FractBelowEpsilon(v.n) THEN DeOk(Number(Fin(AsI64(v.n), 0))) ELSE DeOk(v)
           [] v.k = "Str" -> DeOk(v)
           [] v.k = "List" -> AsList(SeqElements(TEdn, v.xs, Len(v.xs)))
           [] v.k = "Map" -> FinishedMap(EdnEntries(v.kvs, Len(v.kvs)))
           [] OTHER -> DeErr("Cannot deserialize Edn type")
\* while let Some(value) = seq.next_element()? { list.push(value) }
SeqElements(of, xs, n) ==
  IF n = 0 THEN DeOk(<<>>) ELSE Pushed(SeqElements(of, xs, n - 1), Deserialize(of, xs[n]))
SetElements(of, xs, n) ==
  IF n = 0 THEN DeOk(<<>>) ELSE NativeSetInsert(SetElements(of, xs, n - 1), Deserialize(of, xs[n]))
\* while let Some((key, value)) = map.next_entry()? { values.insert(key, value) }
MapEntries(of, kvs, n) ==
  IF n = 0 THEN DeOk(<<>>)
  ELSE NativeMapInsert(MapEntries(of, kvs, n - 1),
                       Deserialize(TString, kvs[n][1]), Deserialize(of, kvs[n][2]))
StructEntries(fields, kvs, n) ==
  IF n = 0 THEN DeOk(<<>>)
  ELSE StructEntry(fields, StructEntries(fields, kvs, n - 1), kvs[n][1], kvs[n][2])
\* the fields of a tuple variant, one element each
TupleElements(types, xs, n) ==
  IF n = 0 THEN DeOk(<<>>)
  ELSE Pushed(TupleElements(types, xs, n - 1),
              IF n > Len(xs) THEN DeErr("invalid length") ELSE Deserialize(types[n], xs[n]))
\* while let Some(key) = map.next_key::<String>()? { .. }
EdnEntries(kvs, n) ==
  IF n = 0 THEN MapState(<<>>, <<>>, <<>>)
  ELSE EdnEntry(EdnEntries(kvs, n - 1), kvs[n][1], kvs[n][2])

\* from_edn::<T>(value)
from_edn(ty, value) == Deserialize(ty, value)

\* sequences of (name, value) with no name twice
NamedSeqs(names, values, n) ==
  {s \in SeqsUpTo(names \X values, n) : \A i, j \in 1..Len(s) : i < j => s[i][1] # s[j][1]}

FieldNames == {<<"a">>, <<"b">>, <<"c">>}

NativeLeaves == {NBool(TRUE), NInt(1), NStr(<<"a">>), NNone}

\* what a field or an entry of the outer value holds
NativeInner ==
  {NInt(1),
   NSome(NStr(<<"a">>)),
   NMap(<<<<NStr(<<"a">>), NInt(1)>>>>),
   NStruct(<<"P">>, <<<<<<"a">>, NInt(1)>>>>),
   NSeq(<<NStruct(<<"P">>, <<<<<<"b">>, NMap(<<<<NStr(<<"c">>), NNone>>>>)>>>>)>>)}

\* enum E { U, N(i64), T(i64, String), R { a: i64 } }
TE ==
  TEnum(<<"E">>, <<<<<<"U">>, "unit", <<>>>>,
                   <<<<"N">>, "newtype", TI64>>,
                   <<<<"T">>, "tuple", <<TI64, TString>>>>,
                   <<<<"R">>, "struct", <<<<<<"a">>, TI64>>>>>>>>)

EnumValues ==
  {NVariant(<<"E">>, <<"U">>, "unit", <<>>),
   NVariant(<<"E">>, <<"N">>, "newtype", NInt(1)),
   NVariant(<<"E">>, <<"T">>, "tuple", <<NInt(1), NStr(<<"a">>)>>),
   NVariant(<<"E">>, <<"R">>, "struct", <<<<<<"a">>, NInt(1)>>>>)}

\* the Rust type of a native value (None is taken as an Option<i64>, an
\* empty collection as one of i64)
RECURSIVE TypeOf(_)
TypeOf(x) ==
  CASE x.k = "NBool" -> TBool
    [] x.k = "NInt" -> TI64
    [] x.k = "NFloat" -> TF64
    [] x.k = "NStr" -> TString
    [] x.k = "NNone" -> TOption(TI64)
    [] x.k = "NSome" -> TOption(TypeOf(x.x))
    [] x.k = "NSeq" -> TVec(IF x.items = <<>> THEN TI64 ELSE TypeOf(x.items[1]))
    [] x.k = "NMap" -> THashMap(IF x.entries = <<>> THEN TI64 ELSE TypeOf(x.entries[1][2]))
    [] x.k = "NStruct" ->
         TStruct(x.name, [i \in 1..Len(x.fields) |-> <<x.fields[i][1], TypeOf(x.fields[i][2])>>])
    [] x.k = "NVariant" -> TE

\* x is a value of the type ty
RECURSIVE HasType(_, _)
HasType(x, ty) ==
  CASE x.k = "NNone" -> ty.t = "Option"
    [] x.k = "NSome" -> ty.t = "Option" /\ HasType(x.x, ty.of)
    [] x.k = "NSeq" -> ty.t = "Vec" /\ \A i \in 1..Len(x.items) : HasType(x.items[i], ty.of)
    [] x.k = "NMap" ->
         /\ ty.t = "HashMap"
         /\ \A i \in 1..Len(x.entries) : x.entries[i][1].k = "NStr" /\ HasType(x.entries[i][2], ty.of)
    [] x.k = "NStruct" ->
         /\ ty.t = "struct"
         /\ Len(ty.fields) = Len(x.fields)
         /\ \A i \in 1..Len(x.fields) :
              ty.fields[i][1] = x.fields[i][1] /\ HasType(x.fields[i][2], ty.fields[i][2])
    [] OTHER -> ty = TypeOf(x)

\* == on native values: a HashMap whatever the order of its entries
RECURSIVE NativeEq(_, _)
NativeEq(x, y) ==
  IF x.k # y.k THEN FALSE
  ELSE CASE x.k = "NSome" -> NativeEq(x.x, y.x)
    [] x.k = "NFloat" -> x.n = y.n /\ x.n.c # "nan"
    [] x.k = "NSeq" ->
         Len(x.items) = Len(y.items) /\ \A i \in 1..Len(x.items) : NativeEq(x.items[i], y.items[i])
    [] x.k = "NMap" ->
         /\ Len(x.entries) = Len(y.entries)
         /\ \A i \in 1..Len(x.entries) : \E j \in 1..Len(y.entries) :
              x.entries[i][1] = y.entries[j][1] /\ NativeEq(x.entries[i][2], y.entries[j][2])
    [] x.k = "NStruct" ->
         /\ x.name = y.name
         /\ Len(x.fields) = Len(y.fields)
         /\ \A i \in 1..Len(x.fields) :
              x.fields[i][1] = y.fields[i][1] /\ NativeEq(x.fields[i][2], y.fields[i][2])
    [] OTHER -> x = y

Natives ==
  NativeLeaves
  \cup EnumValues
  \cup {NFloat(Fin(1, -1)), NSome(NInt(1)), NSome(NNone), NSeq(<<NInt(1), NInt(2)>>),
        NSeq(<<NSome(NStr(<<"a">>)), NNone>>)}
  \cup {NStruct(<<"S">>, s) : s \in NamedSeqs(FieldNames, NativeInner, MaxLen)}
  \cup {NMap(s) : s \in NamedSeqs({NStr(n) : n \in FieldNames}, NativeInner, MaxLen)}
  \cup {NSeq(s) : s \in SeqsUpTo(NativeInner, 1)}

InitSerde ==
  /\ pc = "native"
  /\ native \in Natives
  /\ data = None
  /\ data2 = None
  /\ data3 = None
  /\ nodes = <<>>
  /\ ret = None

\* to_edn(value)
ToEdn ==
  /\ pc = "native"
  /\ ret' = [op |-> "to_edn", out |-> to_edn(native)]
  /\ pc' = "converted"
  /\ UNCHANGED <<data, data2, data3, nodes, native>>

\* from_edn::<T>(to_edn(&x)?) for x: T
RoundTrip ==
  /\ pc = "native"
  /\ HasType(native, TypeOf(native))
  /\ to_edn(native).ok
  /\ ret' = [op |-> "round_trip", ty |-> TypeOf(native), edn |-> to_edn(native).val,
             out |-> from_edn(TypeOf(native), to_edn(native).val)]
  /\ pc' = "returned"
  /\ UNCHANGED <<data, data2, data3, nodes, native>>

NextSerde == ToEdn \/ RoundTrip

SpecSerde == InitSerde /\ [][NextSerde]_vars

\* v is what the claim allows for the native value x: a Map keyed by the
\* Tags of the fields for a struct, a Map keyed by Strs for a string-keyed
\* map, and so on inside
RECURSIVE KeysFollowKind(_, _)
KeysFollowKind(x, v) ==
  CASE x.k = "NStruct" ->
         /\ v.k = "Map"
         /\ Len(v.kvs) = Len(x.fields)
         /\ \A i \in 1..Len(v.kvs) : v.kvs[i][1].k = "Tag"
         /\ \A i \in 1..Len(x.fields) : \E j \in 1..Len(v.kvs) :
              /\ v.kvs[j][1] = [k |-> "Tag", s |-> x.fields[i][1]]
              /\ KeysFollowKind(x.fields[i][2], v.kvs[j][2])
    [] x.k = "NMap" ->
         /\ v.k = "Map"
         /\ Len(v.kvs) = Len(x.entries)
         /\ \A i \in 1..Len(v.kvs) : v.kvs[i][1].k = "Str"
         /\ \A i \in 1..Len(x.entries) : \E j \in 1..Len(v.kvs) :
              /\ v.kvs[j][1] = [k |-> "Str", s |-> x.entries[i][1].s]
              /\ KeysFollowKind(x.entries[i][2], v.kvs[j][2])
    [] x.k = "NSeq" ->
         /\ v.k = "List"
         /\ Len(v.xs) = Len(x.items)
         /\ \A i \in 1..Len(x.items) : KeysFollowKind(x.items[i], v.xs[i])
    [] x.k = "NSome" -> KeysFollowKind(x.x, v)
    [] x.k = "NVariant" -> TRUE
    [] OTHER -> v.k \notin {"Map", "Record"}

\* C6: to_edn of a struct is a Map, never a Record, whose keys are exactly
\* the Tags of its field names; to_edn of a map with string keys is a Map
\* whose keys are all Str; and so at every depth.
C6_TagAndStrKeys ==
  pc = "converted" => ret.out.ok /\ KeysFollowKind(native, ret.out.val)

C6_Witness ==
  /\ pc = "converted"
  /\ native = NStruct(<<"S">>, <<<<<<"b">>, NMap(<<<<NStr(<<"a">>), NInt(1)>>>>)>>, <<<<"a">>, NInt(1)>>>>)
  /\ ret.out.ok
  /\ ret.out.val.k = "Map"
  /\ \E j \in 1..2 : /\ ret.out.val.kvs[j][1] = Tag(<<"b">>)
                     /\ ret.out.val.kvs[j][2] = Map(<<<<Str(<<"a">>), One>>>>)


\* the number of elements of a Set, of entries of a Map
Cardinal(v) == IF v.k = "Set" THEN Len(v.xs) ELSE Len(v.kvs)

\* C11: two Sets, or two Maps, of different cardinality compare as their
\* cardinalities do; two distinct Sets, or Maps, of the same cardinality give
\* no ordering: the comparison fails.
C11_SetMapComparison ==
  pc = "compared" /\ data.k \in {"Set", "Map"} /\ data2.k = data.k =>
    /\ Cardinal(data) < Cardinal(data2) => ret.ab = "Less"
    /\ Cardinal(data) > Cardinal(data2) => ret.ab = "Greater"
    /\ Cardinal(data) = Cardinal(data2) /\ ~EdnEq(data, data2) => ret.ab = "Panic"

C11_Witness ==
  /\ pc = "compared"
  /\ data = Set(<<One>>)
  /\ data2 = Set(<<Two>>)
  /\ ret.ab = "Panic"
  /\ ret.ba = "Panic"


(***************************************************************************)
(* AnyRef values: equality, hash, order and clone.                         *)
(***************************************************************************)
\* the number of places at which the values of RefValues store an EdnAnyRef
Places == 7

\* a, b, c, d of any_ref_values, one holding NaN, a second owner of the cells
\* 1 and 5 (a clone), and each of them inside a List
RefValues ==
  LET refs == {AnyRef(1, 1), AnyRef(2, 2), AnyRef(3, 3), AnyRef(4, 4), AnyRef(5, 5),
               AnyRef(1, 6), AnyRef(5, 7)}
  IN  refs \cup {List(<<r>>) : r \in refs}

\* derive(Clone) for Edn and EdnAnyRef: the copy lives at another place (off
\* further) and its Arc points to the same cell
RECURSIVE EdnClone(_, _)
EdnClone(v, off) ==
  CASE v.k = "AnyRef" -> AnyRef(v.h, v.at + off)
    [] v.k = "List" -> List([i \in 1..Len(v.xs) |-> EdnClone(v.xs[i], off)])
    [] OTHER -> v

InitRef ==
  /\ pc = "refs"
  /\ data \in RefValues
  /\ data2 \in RefValues
  /\ data3 = None
  /\ nodes = <<>>
  /\ native = None
  /\ ret = None

\* a == b, their hashes and a.cmp(&b)
EqualRefs ==
  /\ pc = "refs"
  /\ ret' = [op |-> "eq", eq |-> EdnEq(data, data2), ha |-> EdnHash(data), hb |-> EdnHash(data2),
             ab |-> EdnCmp(data, data2)]
  /\ pc' = "eq"
  /\ UNCHANGED <<data, data2, data3, nodes, native>>

\* c = a.clone(), then a == c
CloneRef ==
  /\ pc = "refs"
  /\ data3' = EdnClone(data, Places)
  /\ ret' = [op |-> "clone", eq |-> EdnEq(data, data3')]
  /\ pc' = "cloned"
  /\ UNCHANGED <<data, data2, nodes, native>>

\* values that hold an AnyRef: as an item, a key, a value, a field, a tag,
\* an enum tag, the content of an Atom, and two levels down
RefHolders ==
  UNION {{r, List(<<One, r>>), List(<<List(<<r>>)>>), Set(<<r>>), Atom(r),
          Map(<<<<TagA, r>>>>), Map(<<<<r, One>>>>), Map(<<<<List(<<r>>), One>>>>),
          Record(<<"A">>, <<<<<<"a">>, r>>>>),
          Tuple(TagA, <<>>, <<r>>), Tuple(r, <<>>, <<>>), Tuple(TagA, <<r>>, <<>>)}
         : r \in {AnyRef(1, 1), AnyRef(3, 3)}}

\* format(&v, inline) and to_edn(&v) of a value that holds an AnyRef
Represent ==
  /\ pc = "refs"
  /\ \E v \in RefHolders, use_inline \in BOOLEAN :
       /\ data3' = v
       /\ ret' = [op |-> "represent", use_inline |-> use_inline,
                  text |-> format(v, use_inline), ser |-> to_edn(EdnSerialize(v))]
  /\ pc' = "represented"
  /\ UNCHANGED <<data, data2, nodes, native>>

NextRef == EqualRefs \/ CloneRef \/ Represent

SpecRef == InitRef /\ [][NextRef]_vars

\* the AnyRef a value is or holds
RefOf(v) == IF v.k = "List" THEN v.xs[1] ELSE v

C13_AnyRefUnrepresentable ==
  pc = "represented" => ~ret.text.ok /\ ~ret.ser.ok


RECURSIVE NestedNone(_)
NestedNone(x) ==
  CASE x.k = "NSome" -> x.x.k = "NNone" \/ NestedNone(x.x)
    [] x.k = "NSeq" -> \E i \in 1..Len(x.items) : NestedNone(x.items[i])
    [] x.k = "NMap" -> \E i \in 1..Len(x.entries) : NestedNone(x.entries[i][2])
    [] x.k = "NStruct" -> \E i \in 1..Len(x.fields) : NestedNone(x.fields[i][2])
    [] OTHER -> FALSE

TP == TStruct(<<"P">>, <<<<<<"n">>, TString>>, <<<<"a">>, TU8>>, <<<<"e">>, TOption(TString)>>>>)

TargetTypes ==
  {TBool, TI64, TU8, TF64, TString, TOption(TString), TVec(TString), THashSet(TString),
   THashMap(TI64), TP, TE, TEdn}

\* the Record of test_record_to_struct_basic, with and without the optional field
PersonRecords ==
  {Record(<<"R">>, <<<<<<"n">>, StrA>>, <<<<"a">>, One>>, <<<<"e">>, StrA>>>>),
   Record(<<"R">>, <<<<<<"n">>, StrA>>, <<<<"a">>, One>>>>)}

PersonMaps ==
  {Map(<<<<Tag(<<"n">>), StrA>>, <<Tag(<<"a">>), One>>>>),
   Map(<<<<Tag(<<"a">>), NotANumber>>, <<Str(<<"n">>), TagA>>, <<Tag(<<"x">>), Nil>>>>),
   Map(<<<<Tag(<<"a">>), One>>>>)}

\* what from_edn may meet where it looks for an enum
EnumForms ==
  {Str(<<"U">>), Str(<<"N">>), Str(<<"X">>), Map(<<>>),
   Map(<<<<Str(<<"N">>), One>>>>), Map(<<<<Str(<<"U">>), Nil>>>>), Map(<<<<Tag(<<"N">>), One>>>>),
   Map(<<<<Str(<<"N">>), One>>, <<Str(<<"U">>), One>>>>),
   Map(<<<<Str(<<"T">>), List(<<One, StrA>>)>>>>), Map(<<<<Str(<<"R">>), Map(<<<<TagA, One>>>>)>>>>)}

DeValues ==
  {Nil, Bool(TRUE), One, Two, BelowOne, NotANumber, Number(Fin(-1, 0)), Number(Fin(0, 1)),
   SymA, TagA, StrA, Quote(Leaf(<<"a">>)), Buffer(<<0, 255>>), Atom(TagA), AnyRef(1, 1),
   Tuple(TagA, <<>>, <<One, TagB>>), Tuple(TagA, <<TagB>>, <<>>),
   List(<<>>), List(<<StrA, TagB>>), List(<<One, SymA>>), List(<<Set(<<One>>)>>),
   Set(<<>>), Set(<<StrA, TagB>>), Set(<<One, Two>>),
   Map(<<<<StrA, One>>>>), Map(<<<<StrA, One>>, <<Str(<<"b">>), SymA>>>>), Map(<<<<One, Two>>>>),
   Record(<<"A">>, <<<<<<"b">>, One>>, <<<<"a">>, Two>>>>), Record(<<"A">>, <<<<<<"a">>, TagA>>>>)}
  \cup PersonRecords \cup PersonMaps \cup EnumForms

\* v holds an AnyRef or a Quote
RECURSIVE Opaque(_)
Opaque(v) ==
  CASE v.k \in {"AnyRef", "Quote"} -> TRUE
    [] v.k = "Tuple" ->
         \/ Opaque(v.tag)
         \/ \E i \in 1..Len(v.enum_tag) : Opaque(v.enum_tag[i])
         \/ \E i \in 1..Len(v.extra) : Opaque(v.extra[i])
    [] v.k \in {"List", "Set"} -> \E i \in 1..Len(v.xs) : Opaque(v.xs[i])
    [] v.k = "Map" -> \E i \in 1..Len(v.kvs) : Opaque(v.kvs[i][1]) \/ Opaque(v.kvs[i][2])
    [] v.k = "Record" -> \E i \in 1..Len(v.pairs) : Opaque(v.pairs[i][2])
    [] v.k = "Atom" -> Opaque(v.x)
    [] OTHER -> FALSE

InitDe ==
  /\ pc = "edn"
  /\ data \in DeValues
  /\ data2 = None
  /\ data3 = None
  /\ nodes = <<>>
  /\ native = None
  /\ ret = None

\* from_edn::<T>(v)
FromEdn ==
  /\ pc = "edn"
  /\ \E ty \in TargetTypes :
       ret' = [op |-> "from_edn", ty |-> ty, out |-> from_edn(ty, data)]
  /\ pc' = "deserialized"
  /\ UNCHANGED <<data, data2, data3, nodes, native>>

\* from_edn::<Edn>(to_edn(&v)?); the HashMaps of the encoded value are read
\* in any order
SentinelRoundTrip ==
  /\ pc = "edn"
  /\ ~Opaque(data)
  /\ to_edn(EdnSerialize(data)).ok
  /\ \E e \in Reorderings(to_edn(EdnSerialize(data)).val) :
       /\ data2' = e
       /\ ret' = [op |-> "sentinel", out |-> from_edn(TEdn, e)]
  /\ pc' = "restored"
  /\ UNCHANGED <<data, data3, nodes, native>>

NextDe == FromEdn \/ SentinelRoundTrip

SpecDe == InitDe /\ [][NextDe]_vars


\* C15: a Number asked for as an integer (i64, u8) either fails or gives the
\* integer numerically equal to it; asked for as any value it is handed over
\* as an integer exactly when it is integral, as the same float otherwise.
C15_NumberDeserialization ==
  pc = "deserialized" /\ data.k = "Number" =>
    /\ ret.ty \in {TI64, TU8} /\ ret.out.ok => data.n = Fin(ret.out.val.i, 0)
    /\ ret.ty = TEdn =>
         /\ ret.out.ok
         /\ ret.out.val = data

\* C16: a value without AnyRef, sent through to_edn and from_edn::<Edn>,
\* comes back equal to itself.
C16_SentinelRoundTrip ==
  pc = "restored" => ret.out.ok /\ EdnEq(ret.out.val, data)

\* C17: a Record deserializes into a struct, field by field whatever its
\* tag, and a Set of strings into a native set or sequence with one element
\* for each element of the Set.
C17_RecordAndSetTargets ==
  pc = "deserialized" =>
    /\ data \in PersonRecords /\ ret.ty = TP =>
         /\ ret.out.ok
         /\ ret.out.val.fields[1] = <<<<"n">>, NStr(<<"a">>)>>
         /\ ret.out.val.fields[2] = <<<<"a">>, NInt(1)>>
    /\ data.k = "Set" /\ ret.ty \in {TVec(TString), THashSet(TString)} =>
         /\ ret.out.ok
         /\ Len(ret.out.val.items) = Len(data.xs)

\* C18: a String target takes a Str(s) and a Tag(s), both giving s, and
\* fails on a value of any other variant.
C18_StringTargets ==
  pc = "deserialized" /\ ret.ty = TString =>
    IF data.k \in {"Str", "Tag"}
    THEN ret.out.ok /\ ret.out.val = NStr(data.s)
    ELSE ~ret.out.ok

C18_Witness ==
  /\ pc = "deserialized"
  /\ ret.ty = TString
  /\ data = TagA
  /\ ret.out = DeOk(NStr(<<"a">>))

\* C19: to_edn of an enum value is the Str of the variant name for a unit
\* variant and a Map of one entry, the Str of the variant name to the payload,
\* for the others; from_edn of it gives the enum value back.
C19_EnumConversion ==
  /\ pc = "converted" /\ native.k = "NVariant" =>
       /\ ret.out.ok
       /\ IF native.shape = "unit" THEN ret.out.val = Str(native.variant)
          ELSE /\ ret.out.val.k = "Map"
               /\ Len(ret.out.val.kvs) = 1
               /\ ret.out.val.kvs[1][1] = Str(native.variant)
  /\ pc = "returned" /\ native.k = "NVariant" => ret.out.ok /\ ret.out.val = native



(***************************************************************************)
(* The `do` form.                                                          *)
(***************************************************************************)
\* a (do ...) expression at the top level
IsDoForm(xs) ==
  /\ Len(xs) = 1
  /\ ~IsLeaf(xs[1])
  /\ xs[1].list # <<>>
  /\ xs[1].list[1] = Leaf(OpDo)

\* C20 as stated: parse of (do ...) is the parse of its single non-comment
\* child, and a StructureError when it has none or more than one; format
\* writes a literal at the top level as (do literal) and every other value
\* as its own list form, which is not a `do` form.
C20_DoForm ==
  /\ (pc = "parsed" /\ IsDoForm(nodes)) =>
        IF Cardinality(Items(nodes[1].list, 1)) = 1
        THEN \A i \in Items(nodes[1].list, 1) :
               ret.out = extract_cirru_edn_with_path(At(nodes[1].list, i), <<i>>)
        ELSE ~ret.out.ok /\ ret.out.kind = "StructureError"
  /\ (pc = "formatted" /\ ret.out.ok) =>
        IF is_literal(data)
        THEN ret.out.text = <<CList(<<Leaf(OpDo), assemble_cirru_node(data).tree>>)>>
        ELSE /\ ret.out.text = <<assemble_cirru_node(data).tree>>
             /\ ~IsDoForm(ret.out.text)

\* C20 with the error of several children told apart: when the first
\* non-comment child of a (do ...) with several of them does not parse, the
\* failure is that child's error; otherwise it is the StructureError
\* "multiple values in do".  Without any non-comment child the failure is the
\* StructureError "missing edn do value".
C20_DoFormFirstChildError ==
  /\ (pc = "parsed" /\ IsDoForm(nodes)) =>
        CASE Cardinality(Items(nodes[1].list, 1)) = 0 ->
               ret.out = StructureError("missing edn do value", <<>>, <<nodes[1]>>)
          [] Cardinality(Items(nodes[1].list, 1)) = 1 ->
               \A i \in Items(nodes[1].list, 1) :
                 ret.out = extract_cirru_edn_with_path(At(nodes[1].list, i), <<i>>)
          [] OTHER ->
               \A i \in Items(nodes[1].list, 1) :
                 (\A j \in Items(nodes[1].list, 1) : i <= j) =>
                   IF extract_cirru_edn_with_path(At(nodes[1].list, i), <<i>>).ok
                   THEN ret.out = StructureError("multiple values in do", <<>>, <<nodes[1]>>)
                   ELSE ret.out = extract_cirru_edn_with_path(At(nodes[1].list, i), <<i>>)
  /\ (pc = "formatted" /\ ret.out.ok) =>
        IF is_literal(data)
        THEN ret.out.text = <<CList(<<Leaf(OpDo), assemble_cirru_node(data).tree>>)>>
        ELSE /\ ret.out.text = <<assemble_cirru_node(data).tree>>
             /\ ~IsDoForm(ret.out.text)

\* (do x 1): the first child is an unknown token, and its error is returned
C20_Witness ==
  /\ pc = "parsed"
  /\ nodes = <<CList(<<Leaf(OpDo), UnknownToken, Leaf(<<"1">>)>>)>>
  /\ ~ret.out.ok
  /\ ret.out.kind = "ValueError"
  /\ ret.out.path = <<1>>


(***************************************************************************)
(* Tags made by several threads.  A tag is its string in storage of its    *)
(* own (Arc<str>): EdnTag::new allocates, Clone shares the storage.  pc    *)
(* holds each thread's position, data the tags made so far in the order    *)
(* of their creation.                                                      *)
(***************************************************************************)
Threads == {1, 2}
MaxTags == 3
TagTexts == {<<"a">>, <<"a", "b">>, <<"A">>}

\* EdnTag(Arc<str>): the text, the allocation that holds it, the thread that made it
EdnTag(s, arc, by) == [s |-> s, arc |-> arc, by |-> by]

\* equality of tags by the storage they share
TagSameStorage(a, b) == a.arc = b.arc

\* impl PartialEq for EdnTag: self.0 == other.0
TagEq(a, b) == a.s = b.s

\* impl Ord for EdnTag: self.0.cmp(&other.0)
TagCmp(a, b) == StrCmp(a.s, b.s)

InitTag ==
  /\ pc = [t \in Threads |-> "run"]
  /\ data = <<>>
  /\ data2 = None
  /\ data3 = None
  /\ nodes = <<>>
  /\ native = None
  /\ ret = None

\* EdnTag::new(s) / EdnTag::from(s) on thread t
TagNew(t) ==
  /\ pc[t] = "run"
  /\ Len(data) < MaxTags
  /\ \E s \in TagTexts : data' = Append(data, EdnTag(s, Len(data) + 1, t))
  /\ UNCHANGED <<pc, data2, data3, nodes, native, ret>>

\* tag.clone() on thread t of a tag made by any thread
TagClone(t) ==
  /\ pc[t] = "run"
  /\ Len(data) < MaxTags
  /\ \E i \in 1..Len(data) : data' = Append(data, EdnTag(data[i].s, data[i].arc, t))
  /\ UNCHANGED <<pc, data2, data3, nodes, native, ret>>

\* a == b, a.cmp(&b), the hashes of both, and the Edn values of a's text compared
TagCompare(t) ==
  /\ pc[t] = "run"
  /\ \E i, j \in 1..Len(data) :
       ret' = [op |-> "tag_compare", by |-> t, a |-> data[i], b |-> data[j],
               eq |-> TagEq(data[i], data[j]),
               cmp |-> TagCmp(data[i], data[j]),
               ha |-> TagHash(data[i].s),
               hb |-> TagHash(data[j].s),
               eq_str |-> EdnEq(Tag(data[i].s), Str(data[i].s)),
               eq_symbol |-> EdnEq(Tag(data[i].s), Symbol(data[i].s))]
  /\ pc' = [pc EXCEPT ![t] = "done"]
  /\ UNCHANGED <<data, data2, data3, nodes, native>>

NextTag == \E t \in Threads : TagNew(t) \/ TagClone(t) \/ TagCompare(t)

SpecTag == InitTag /\ [][NextTag]_vars

\* s is before t byte-wise: at the first position where they differ s has
\* the smaller byte, or s is a proper prefix of t
LexBefore(s, t) ==
  \E i \in 1..(Len(t)) :
    /\ \A j \in 1..(i - 1) : j <= Len(s) /\ s[j] = t[j]
    /\ (i > Len(s) \/ Ascii[s[i]] < Ascii[t[i]])

\* C21: two tags are equal exactly when their texts are equal, are ordered
\* as their texts are byte-wise, and hash equally when equal, whichever
\* thread made them, in whatever order, sharing storage or not; a Tag is
\* never equal to the Str or the Symbol of the same text.
C21_TagByContent ==
  (ret # None /\ ret.op = "tag_compare") =>
    /\ ret.eq <=> (ret.a.s = ret.b.s)
    /\ (ret.cmp = "Equal") <=> (ret.a.s = ret.b.s)
    /\ (ret.cmp = "Less") <=> LexBefore(ret.a.s, ret.b.s)
    /\ (ret.cmp = "Greater") <=> LexBefore(ret.b.s, ret.a.s)
    /\ ret.eq => ret.ha = ret.hb
    /\ ~ret.eq_str
    /\ ~ret.eq_symbol

\* two tags of the same text made by different threads in storage of their own
C21_Witness ==
  /\ ret # None
  /\ ret.op = "tag_compare"
  /\ ret.a.s = ret.b.s
  /\ ret.a.arc # ret.b.arc
  /\ ret.a.by # ret.b.by
  /\ ret.eq
  /\ ret.cmp = "Equal"


(***************************************************************************)
(* Comments among the children of a form.                                  *)
(***************************************************************************)
ScannedOps == {OpDo, OpTuple, OpEnumTuple, OpList, OpSet, OpMap, OpRecord, OpBuf, OpAtom}

\* a top-level list form whose operator is one of ops
IsFormOf(xs, ops) ==
  /\ Len(xs) = 1
  /\ ~IsLeaf(xs[1])
  /\ xs[1].list # <<>>
  /\ IsLeaf(xs[1].list[1])
  /\ xs[1].list[1].leaf \in ops

\* the form without the comment nodes among its children after the operator
WithoutComments(node) ==
  CList(<<node.list[1]>> \o SelectSeq(Tail(node.list), LAMBDA x : ~is_comment(x)))

\* C22: a form of a scanned operator parses to the same value as the form
\* without the comments among its children, and fails when that one fails.
C22_CommentsTransparent ==
  (pc = "parsed" /\ IsFormOf(nodes, ScannedOps)) =>
    /\ ret.out.ok <=> parse(<<WithoutComments(nodes[1])>>).ok
    /\ ret.out.ok => ret.out.val = parse(<<WithoutComments(nodes[1])>>).val


\* C23: a `{}` form with a non-comment child that is a leaf or a list of
\* another length than 2 fails with a StructureError, so that on success
\* every non-comment child is a (key value) pair.
C23_MapEntriesArePairs ==
  (pc = "parsed" /\ IsFormOf(nodes, {OpMap})) =>
    ((\E i \in Items(nodes[1].list, 1) :
        IsLeaf(At(nodes[1].list, i)) \/ Len(At(nodes[1].list, i).list) # 2)
     => (~ret.out.ok /\ ret.out.kind = "StructureError"))


(***************************************************************************)
(* Errors of parse: kind, path and node.                                   *)
(***************************************************************************)
\* the node a path leads to from node, one 0-based child index per level;
\* nothing when the path leaves the tree
RECURSIVE NodeAt(_, _)
NodeAt(node, path) ==
  IF path = <<>> THEN <<node>>
  ELSE IF IsLeaf(node) \/ Head(path) >= Len(node.list) THEN <<>>
  ELSE NodeAt(At(node.list, Head(path)), Tail(path))

\* the operator of a list form, nothing for a leaf or a list without a leaf head
OpOf(node) ==
  IF ~IsLeaf(node) /\ node.list # <<>> /\ IsLeaf(node.list[1]) THEN <<node.list[1].leaf>> ELSE <<>>

\* path without its last index
Front(path) == SubSeq(path, 1, Len(path) - 1)

\* the node at path is read as a value: it is a child of a do, ::, %::, [],
\* #{} or atom form, the key or the value of a `{}` entry, or the value of a
\* `%{}` field
ValuePosition(root, path) ==
  /\ path # <<>>
  /\ NodeAt(root, path) # <<>>
  /\ \/ OpOf(NodeAt(root, Front(path))[1]) # <<>>
        /\ OpOf(NodeAt(root, Front(path))[1])[1] \in {OpDo, OpTuple, OpEnumTuple, OpList, OpSet, OpAtom}
     \/ /\ Len(path) >= 2
        /\ Len(NodeAt(root, Front(path))[1].list) = 2
        /\ \/ OpOf(NodeAt(root, Front(Front(path)))[1]) = <<OpMap>>
           \/ /\ OpOf(NodeAt(root, Front(Front(path)))[1]) = <<OpRecord>>
              /\ path[Len(path)] = 1
              /\ path[Len(path) - 1] >= 2

\* C24: the kind of the error is the kind of the fault itself, whatever
\* encloses it: when the error's path leads to a node read as a value that
\* does not parse on its own, parse of the whole fails with the kind that
\* node fails with (a ValueError for an unknown token or an empty leaf, a
\* StructureError for a fault of shape), also inside a Map entry or a Record
\* field; a fault of a `buf` child is a ValueError.
C24_ErrorKindOfFault ==
  (pc = "parsed" /\ Len(nodes) = 1 /\ ~IsLeaf(nodes[1]) /\ ~ret.out.ok) =>
    /\ NodeAt(nodes[1], ret.out.path) # <<>>
    /\ (ValuePosition(nodes[1], ret.out.path)
         /\ ~extract_cirru_edn_with_path(NodeAt(nodes[1], ret.out.path)[1], ret.out.path).ok) =>
         ret.out.kind = extract_cirru_edn_with_path(NodeAt(nodes[1], ret.out.path)[1], ret.out.path).kind
    /\ (ret.out.path # <<>> /\ OpOf(NodeAt(nodes[1], Front(ret.out.path))[1]) = <<OpBuf>>) =>
         ret.out.kind = "ValueError"

\* C25: the path of the error leads from the root to the deepest faulty
\* node: the node it leads to either parses on its own (the fault is its
\* place in the enclosing form) or fails at itself, never at a node below.
C25_PathToDeepestFault ==
  (pc = "parsed" /\ Len(nodes) = 1 /\ ~IsLeaf(nodes[1]) /\ ~ret.out.ok) =>
    /\ NodeAt(nodes[1], ret.out.path) # <<>>
    /\ \/ extract_cirru_edn_with_path(NodeAt(nodes[1], ret.out.path)[1], ret.out.path).ok
       \/ extract_cirru_edn_with_path(NodeAt(nodes[1], ret.out.path)[1], ret.out.path).path = ret.out.path


\* C26: every error of parse carries a path and a node, and the node is the
\* sub-tree the path leads to.
C26_ErrorNodeAtPath ==
  (pc = "parsed" /\ ~ret.out.ok) =>
    /\ ret.out.node # <<>>
    /\ Len(nodes) = 1 => NodeAt(nodes[1], ret.out.path) = ret.out.node


\* C27: a Record that parse or a record builder returns has a tag that is
\* not empty and no field whose name is empty.
C27_RecordNamesNotEmpty ==
  (ret # None /\ ret.op \in {"parse", "record_from_pairs"} /\ ret.out.ok /\ ret.out.val.k = "Record") =>
    /\ ret.out.val.rtag # <<>>
    /\ \A i \in 1..Len(ret.out.val.pairs) : ret.out.val.pairs[i][1] # <<>>


(***************************************************************************)
(* Tuple forms.                                                            *)
(***************************************************************************)
\* the values of the children of xs at the positions of S, in order
ValuesAt(xs, S) ==
  [j \in 1..Cardinality(S) |-> extract_cirru_edn_with_path(At(xs, Nth(S, j)), <<>>).val]

\* every child of xs at a position of S parses on its own
AllParse(xs, S) == \A i \in S : extract_cirru_edn_with_path(At(xs, i), <<>>).ok

\* C28: (:: t x1..xn) parses to the Tuple of tag t, no enum tag and extra
\* x1..xn, and is a StructureError without a value; (%:: e t x1..xn) parses
\* to the Tuple of tag t, enum tag e and extra x1..xn, and is a
\* StructureError with fewer than two values; format writes `%::` with the
\* enum tag first exactly for a Tuple that has one and `::` otherwise, and
\* what it wrote parses to a Tuple that has an enum tag exactly when the
\* Tuple written has one.
C28_TupleForms ==
  /\ (pc = "parsed" /\ IsFormOf(nodes, {OpTuple}) /\ AllParse(nodes[1].list, Items(nodes[1].list, 1))) =>
       IF Items(nodes[1].list, 1) = {}
       THEN ~ret.out.ok /\ ret.out.kind = "StructureError"
       ELSE ret.out = Parsed(Tuple(Head(ValuesAt(nodes[1].list, Items(nodes[1].list, 1))), <<>>,
                                   Tail(ValuesAt(nodes[1].list, Items(nodes[1].list, 1)))))
  /\ (pc = "parsed" /\ IsFormOf(nodes, {OpEnumTuple}) /\ AllParse(nodes[1].list, Items(nodes[1].list, 1))) =>
       IF Cardinality(Items(nodes[1].list, 1)) < 2
       THEN ~ret.out.ok /\ ret.out.kind = "StructureError"
       ELSE ret.out = Parsed(Tuple(ValuesAt(nodes[1].list, Items(nodes[1].list, 1))[2],
                                   <<ValuesAt(nodes[1].list, Items(nodes[1].list, 1))[1]>>,
                                   Tail(Tail(ValuesAt(nodes[1].list, Items(nodes[1].list, 1))))))
  /\ (pc = "formatted" /\ ret.out.ok /\ data.k = "Tuple") =>
       /\ Len(ret.out.text) = 1
       /\ IF data.enum_tag # <<>>
          THEN /\ IsFormOf(ret.out.text, {OpEnumTuple})
               /\ ret.out.text[1].list[2] = assemble_cirru_node(data.enum_tag[1]).tree
               /\ ret.out.text[1].list[3] = assemble_cirru_node(data.tag).tree
          ELSE /\ IsFormOf(ret.out.text, {OpTuple})
               /\ ret.out.text[1].list[2] = assemble_cirru_node(data.tag).tree
       /\ parse(ret.out.text).ok =>
            /\ parse(ret.out.text).val.k = "Tuple"
            /\ (parse(ret.out.text).val.enum_tag = <<>>) <=> (data.enum_tag = <<>>)

\* %:: :e :a 1 2 parsed and written again
C28_Witness ==
  /\ pc = "formatted"
  /\ data = Tuple(Tag(<<"a">>), <<Tag(<<"e">>)>>, <<One, Two>>)
  /\ ret.out.ok
  /\ ret.out.text = nodes
  /\ nodes = <<CList(<<Leaf(OpEnumTuple), Leaf(<<":", "e">>), Leaf(<<":", "a">>), Leaf(<<"1">>), Leaf(<<"2">>)>>)>>


\* C29: where a.cmp(&b) is defined it is Equal exactly when a == b.
C29_OrderAgreesWithEquality ==
  (pc = "compared" /\ ret.ab # "Panic") => ((ret.ab = "Equal") <=> EdnEq(data, data2))


(***************************************************************************)
(* Keyword interning (keyword.rs) called from several threads.  data is    *)
(* KEYWORDS_DICT, data2 KEYWORDS_REVERSE_DICT, both as sets of (key,       *)
(* value) pairs; data3 is KEYWORD_ID; nodes holds the locals s and ret of  *)
(* each thread's call of load_order_key, native the keywords returned so   *)
(* far.  A block run under a lock of the RwLock is one step.               *)
(***************************************************************************)
MaxCalls == 3
KwdTexts == {<<"a">>, <<"b">>}

\* HashMap::insert on a set of (key, value) pairs
DictInsert(dict, k, v) == {p \in dict : p[1] # k} \cup {<<k, v>>}

InitKwd ==
  /\ pc = [t \in Threads |-> "idle"]
  /\ data = {}
  /\ data2 = {}
  /\ data3 = 0
  /\ nodes = [t \in Threads |-> None]
  /\ native = <<>>
  /\ ret = None

\* EdnKwd::from(s) entered on thread t: load_order_key(s) with ret = 0
KwdFrom(t) ==
  /\ pc[t] = "idle"
  /\ Len(native) + Cardinality({u \in Threads : pc[u] # "idle"}) < MaxCalls
  /\ \E s \in KwdTexts : nodes' = [nodes EXCEPT ![t] = [s |-> s, ret |-> 0]]
  /\ pc' = [pc EXCEPT ![t] = "read"]
  /\ UNCHANGED <<data, data2, data3, native, ret>>

\* the block under KEYWORDS_DICT.read(): existed, and ret when the key is there
KwdLookup(t) ==
  /\ pc[t] = "read"
  /\ IF \E p \in data : p[1] = nodes[t].s
     THEN /\ nodes' = [nodes EXCEPT ![t].ret = (CHOOSE p \in data : p[1] = nodes[t].s)[2]]
          /\ pc' = [pc EXCEPT ![t] = "return"]
     ELSE /\ nodes' = nodes
          /\ pc' = [pc EXCEPT ![t] = "write"]
  /\ UNCHANGED <<data, data2, data3, native, ret>>

\* the block under both write locks: fetch_add and the two inserts
KwdRecord(t) ==
  /\ pc[t] = "write"
  /\ nodes' = [nodes EXCEPT ![t].ret = data3]
  /\ data3' = data3 + 1
  /\ data' = DictInsert(data, nodes[t].s, data3)
  /\ data2' = DictInsert(data2, data3, nodes[t].s)
  /\ pc' = [pc EXCEPT ![t] = "return"]
  /\ UNCHANGED <<native, ret>>

\* load_order_key returns and EdnKwd { id } is built
KwdReturn(t) ==
  /\ pc[t] = "return"
  /\ native' = Append(native, [s |-> nodes[t].s, id |-> nodes[t].ret, by |-> t])
  /\ ret' = [op |-> "kwd", s |-> nodes[t].s, id |-> nodes[t].ret]
  /\ nodes' = [nodes EXCEPT ![t] = None]
  /\ pc' = [pc EXCEPT ![t] = "idle"]
  /\ UNCHANGED <<data, data2, data3>>

NextKwd == \E t \in Threads : KwdFrom(t) \/ KwdLookup(t) \/ KwdRecord(t) \/ KwdReturn(t)

SpecKwd == InitKwd /\ [][NextKwd]_vars

\* C30: each string is given one id and never a second one, two keywords
\* made from the same string are equal (impl PartialEq: the ids are equal),
\* and the two dictionaries are inverse of each other.
C30_InterningRaceFree ==
  /\ \A i, j \in 1..Len(native) : native[i].s = native[j].s => native[i].id = native[j].id
  /\ data2 = {<<p[2], p[1]>> : p \in data}

=============================================================================
